---- MODULE Spec2Model ----
(***************************************************************************)
(* protokol: a watcher turns pod observations into deduplicated log        *)
(* capture tasks (pkg/watcher), capture sinks write the log streams        *)
(* (pkg/collector).  Strings are sequences of one-character strings, so    *)
(* that formatting (fmt.Sprintf) and glob matching (filepath.Match) are    *)
(* computed character by character.                                        *)
(***************************************************************************)
EXTENDS Integers, Sequences, FiniteSets, Bags, TLC

(***************************************************************************)
(* Bounds of the model.                                                    *)
(***************************************************************************)
MaxPatLen == 2
MaxNameLen == 2
MaxPatterns == 2
MaxObs == 2
MaxEvents == 1
MaxNotifications == 3

VARIABLES
    queryNeedle,       \* pattern matcher: the value to match
    queryPatterns,     \* pattern matcher: the pattern list
    queryResult,     \* pattern matcher: <<>> before the call, <<result>> after it
    opt,             \* Watcher.opt (watcher.Options)
    flatFiles,       \* diskCollector.flatFiles
    seenContainers,  \* Watcher.seenContainers
    running,         \* bag of collectLogs goroutines started and not yet returned
    finished,        \* bag of collectLogs goroutines that have returned
    wg,              \* the sync.WaitGroup counter of Watch
    created,         \* bag of log file paths, one copy per os.Create call
    phase,           \* where Watch is: "initial", "live", "wait", "returned"
    nObs,            \* number of pod observations handled so far
    presented,       \* history: bag of the identities observed in an accepted phase
    passedOver,      \* history: containers observed without a status or in another phase
    podWatcher,      \* the pod channel given to Watch: "nil", "open", "closed"
    eventWatcher,    \* the event channel given to Watch: "nil", "open", "closed"
    eventLoop,       \* the goroutine ranging over the event channel: "idle", "running", "done"
    nEvents,         \* number of events received by that goroutine so far
    cancelled,       \* whether the context given to Watch is cancelled
    failures,        \* bag of collectLogs goroutines that have logged an error
    initialPods,     \* Watcher.initialPods
    initialEvents,   \* Watcher.initialEvents
    lastStep,        \* history: the last iteration of a loop of Watch, where it is kept
    stream,          \* multiplex: the upstream log stream, [data, end]
    streamPos,       \* multiplex: number of bytes read from the upstream so far
    pipe,            \* multiplex: the io.Pipe, [buf, closed]
    waiter,          \* multiplex: the sync.WaitGroup counter of CollectLogs
    aPC,             \* multiplex: where goroutine a (the disk collector) is
    bPC,             \* multiplex: where goroutine b (the stream collector) is
    aChunk,          \* multiplex: what the last teeReader.Read returned, [data, err]
    aGot,            \* multiplex: the bytes a has written to its log file
    bGot,            \* multiplex: the bytes b has read from pipeReader
    bEnd,            \* multiplex: the error that ended b's reading, "" before it
    aErr,            \* multiplex: the error a.CollectLogs returns, "" for nil
    returned,        \* multiplex: <<>> before CollectLogs returns, <<error>> after it
    prefixFormat,    \* streamCollector.prefixFormat
    eventsAsText,    \* diskCollector.eventsAsText
    rawEvents,       \* diskCollector.rawEvents
    files,           \* the metadata and event files on disk: file name -> entries
    mux,             \* the composite CollectPodMetadata or CollectEvent call in progress
    calls            \* history: the composite calls that have returned, in order

vars == << queryNeedle, queryPatterns, queryResult, opt, flatFiles, seenContainers, running,
           finished, wg, created, phase, nObs, presented, passedOver,
           podWatcher, eventWatcher, eventLoop, nEvents, cancelled, failures,
           initialPods, initialEvents, lastStep,
           stream, streamPos, pipe, waiter, aPC, bPC, aChunk, aGot, bGot, bEnd, aErr, returned,
           prefixFormat, eventsAsText, rawEvents, files, mux, calls >>

sinkVars == << eventsAsText, rawEvents, files, mux, calls >>

teeVars == << stream, streamPos, pipe, waiter, aPC, bPC, aChunk, aGot, bGot, bEnd, aErr, returned,
             prefixFormat >>

matcherVars == << queryNeedle, queryPatterns, queryResult >>

watcherVars == << opt, flatFiles, seenContainers, running, finished, wg,
                  created, phase, nObs, presented, passedOver,
                  podWatcher, eventWatcher, eventLoop, nEvents, cancelled, failures,
                  initialPods, initialEvents, lastStep >>

\* What Watch is given and what only the event goroutine and the capture
\* tasks' errors change.
channelVars ==
    << podWatcher, eventWatcher, nEvents, cancelled, initialPods, initialEvents >>

(***************************************************************************)
(* Characters.  CharTable lists the characters the model uses in ASCII     *)
(* order; Code is order preserving, which is all a character range of a    *)
(* glob pattern ([a-c]) needs.  Code 0 is Go's zero rune.                  *)
(***************************************************************************)
CharTable ==
    << "*", "-", ".", "/", "0", "1", "2", "3", "4", "5", "6", "7", "8", "9",
       ":", "?", "[", "\\", "]", "^", "_",
       "a", "b", "c", "d", "e", "f", "g", "h", "i", "j", "k", "l", "m",
       "n", "o", "p", "q", "r", "s", "t", "u", "v", "w", "x", "y", "z" >>

Code(c) == CHOOSE i \in 1..Len(CharTable) : CharTable[i] = c

Separator == "/"

Range(s) == { s[i] : i \in 1..Len(s) }

Contains(s, c) == c \in Range(s)

Drop(s, n) == SubSeq(s, n + 1, Len(s))

(***************************************************************************)
(* path/filepath.Match of the Go standard library, as nameMatches calls    *)
(* it: scanChunk, getEsc, matchChunk and Match, on non-Windows systems.    *)
(***************************************************************************)
BadPattern == [rest |-> << >>, ok |-> FALSE, err |-> TRUE]

SkipStars(pattern) ==
    LET n == CHOOSE k \in 0..Len(pattern) :
                 /\ \A i \in 1..k : pattern[i] = "*"
                 /\ (k < Len(pattern) => pattern[k + 1] # "*")
    IN  Drop(pattern, n)

RECURSIVE ScanEnd(_, _, _)
ScanEnd(pattern, i, inrange) ==
    IF i > Len(pattern) THEN i
    ELSE IF pattern[i] = "\\"
         THEN ScanEnd(pattern, IF i + 1 <= Len(pattern) THEN i + 2 ELSE i + 1, inrange)
    ELSE IF pattern[i] = "[" THEN ScanEnd(pattern, i + 1, TRUE)
    ELSE IF pattern[i] = "]" THEN ScanEnd(pattern, i + 1, FALSE)
    ELSE IF pattern[i] = "*" /\ ~inrange THEN i
    ELSE ScanEnd(pattern, i + 1, inrange)

scanChunk(pattern) ==
    LET p == SkipStars(pattern)
        i == ScanEnd(p, 1, FALSE)
    IN  [star  |-> Len(pattern) > 0 /\ pattern[1] = "*",
         chunk |-> SubSeq(p, 1, i - 1),
         rest  |-> Drop(p, i - 1)]

getEsc(chunk) ==
    IF Len(chunk) = 0 \/ chunk[1] = "-" \/ chunk[1] = "]"
    THEN [r |-> 0, nchunk |-> << >>, err |-> TRUE]
    ELSE LET c == IF chunk[1] = "\\" THEN Tail(chunk) ELSE chunk
         IN  IF Len(c) = 0
             THEN [r |-> 0, nchunk |-> << >>, err |-> TRUE]
             ELSE [r |-> Code(c[1]), nchunk |-> Tail(c), err |-> Len(c) = 1]

\* The loop over the ranges of a character class, "for { ... nrange++ }":
\* ParseRanges tests for the closing bracket, rangeLo takes over with the
\* result lo of the first getEsc, rangeHi with the result hi of the second.
RECURSIVE ParseRanges(_, _, _, _)
rangeHi(lo, hi, r, match, nrange) ==
    IF hi.err THEN [chunk |-> << >>, match |-> FALSE, err |-> TRUE]
    ELSE ParseRanges(hi.nchunk, r, match \/ (lo.r <= r /\ r <= hi.r), nrange + 1)

rangeLo(lo, r, match, nrange) ==
    IF lo.err THEN [chunk |-> << >>, match |-> FALSE, err |-> TRUE]
    ELSE IF lo.nchunk[1] = "-"
    THEN rangeHi(lo, getEsc(Tail(lo.nchunk)), r, match, nrange)
    ELSE ParseRanges(lo.nchunk, r, match \/ lo.r = r, nrange + 1)

ParseRanges(chunk, r, match, nrange) ==
    IF Len(chunk) > 0 /\ chunk[1] = "]" /\ nrange > 0
    THEN [chunk |-> Tail(chunk), match |-> match, err |-> FALSE]
    ELSE rangeLo(getEsc(chunk), r, match, nrange)

\* The loop of matchChunk, "for len(chunk) > 0": MatchChunkLoop is its test
\* and "failed = true" on an empty s, chunkTerm the switch on chunk[0] with
\* s1 the rest of s, chunkClass the end of case '[' with the result rg of
\* the range loop, chunkLiteral the default case on the chunk c.
RECURSIVE MatchChunkLoop(_, _, _)
chunkLiteral(c, s, s1, failed) ==
    MatchChunkLoop(Tail(c), s1, failed \/ c[1] # s[1])

chunkClass(negated, rg, s1, failed) ==
    IF rg.err THEN BadPattern
    ELSE MatchChunkLoop(rg.chunk, s1, failed \/ (rg.match = negated))

chunkNegated(chunk) == Len(chunk) > 1 /\ chunk[2] = "^"

chunkTerm(chunk, s, s1, failed) ==
    IF chunk[1] = "["
    THEN chunkClass(chunkNegated(chunk),
                    ParseRanges(Drop(chunk, IF chunkNegated(chunk) THEN 2 ELSE 1),
                                IF failed THEN 0 ELSE Code(s[1]), FALSE, 0),
                    s1, failed)
    ELSE IF chunk[1] = "?"
    THEN MatchChunkLoop(Tail(chunk), s1, failed \/ s[1] = Separator)
    ELSE IF chunk[1] = "\\"
    THEN IF Len(chunk) = 1 THEN BadPattern ELSE chunkLiteral(Tail(chunk), s, s1, failed)
    ELSE chunkLiteral(chunk, s, s1, failed)

chunkStep(chunk, s, failed) ==
    chunkTerm(chunk, s, IF failed THEN s ELSE Tail(s), failed)

MatchChunkLoop(chunk, s, wasFailed) ==
    IF Len(chunk) = 0
    THEN IF wasFailed THEN [rest |-> << >>, ok |-> FALSE, err |-> FALSE]
                      ELSE [rest |-> s, ok |-> TRUE, err |-> FALSE]
    ELSE chunkStep(chunk, s, wasFailed \/ Len(s) = 0)

matchChunk(chunk, s) == MatchChunkLoop(chunk, s, FALSE)

\* "Before returning false with no error, check that the remainder of the
\* pattern is syntactically valid."
RECURSIVE RemainderBad(_)
remainderChunkBad(sc) == matchChunk(sc.chunk, << >>).err \/ RemainderBad(sc.rest)

RemainderBad(pattern) ==
    IF Len(pattern) = 0 THEN FALSE
    ELSE remainderChunkBad(scanChunk(pattern))

\* The loop "for i := 0; i < len(name) && name[i] != Separator; i++" that looks
\* for a match of the chunk after skipping i+1 bytes; i counts from 1 here.
\* starTry is the body of that loop, m the result of its matchChunk.
RECURSIVE StarSkip(_, _, _, _)
starTry(chunk, rest, name, i, m) ==
    IF m.ok
    THEN IF Len(rest) = 0 /\ Len(m.rest) > 0
         THEN StarSkip(chunk, rest, name, i + 1)
         ELSE [found |-> TRUE, name |-> m.rest, err |-> FALSE]
    ELSE IF m.err THEN [found |-> FALSE, name |-> name, err |-> TRUE]
    ELSE StarSkip(chunk, rest, name, i + 1)

StarSkip(chunk, rest, name, i) ==
    IF i > Len(name) \/ name[i] = Separator
    THEN [found |-> FALSE, name |-> name, err |-> FALSE]
    ELSE starTry(chunk, rest, name, i, matchChunk(chunk, Drop(name, i)))

\* The loop of Match, "Pattern: for len(pattern) > 0": matchScanned takes
\* over with the result sc of scanChunk, matchFirst with the result m of the
\* first matchChunk, matchStar with the result sk of the loop that skips.
RECURSIVE Match(_, _)
matchStar(sc, sk) ==
    IF sk.found THEN Match(sc.rest, sk.name)
    ELSE IF sk.err THEN [matched |-> FALSE, err |-> TRUE]
    ELSE [matched |-> FALSE, err |-> RemainderBad(sc.rest)]

matchFirst(sc, name, m) ==
    IF m.ok /\ (Len(m.rest) = 0 \/ Len(sc.rest) > 0)
    THEN Match(sc.rest, m.rest)
    ELSE IF m.err THEN [matched |-> FALSE, err |-> TRUE]
    ELSE IF sc.star THEN matchStar(sc, StarSkip(sc.chunk, sc.rest, name, 1))
    ELSE [matched |-> FALSE, err |-> RemainderBad(sc.rest)]

matchScanned(sc, name) ==
    IF sc.star /\ Len(sc.chunk) = 0
    THEN [matched |-> ~Contains(name, Separator), err |-> FALSE]
    ELSE matchFirst(sc, name, matchChunk(sc.chunk, name))

Match(pattern, name) ==
    IF Len(pattern) = 0 THEN [matched |-> Len(name) = 0, err |-> FALSE]
    ELSE matchScanned(scanChunk(pattern), name)

(***************************************************************************)
(* pkg/watcher: the pattern matcher.                                       *)
(***************************************************************************)
\* Mutation of nameMatches: a pattern that fails to compile matches.
nameMatchesOnError(name, pattern) ==
    IF Contains(pattern, "*")
    THEN Match(pattern, name).matched \/ Match(pattern, name).err
    ELSE name = pattern

nameMatches(name, pattern) ==
    IF Contains(pattern, "*")
    THEN Match(pattern, name).matched
    ELSE name = pattern

RECURSIVE MatchesFrom(_, _, _)
MatchesFrom(needle, patterns, i) ==
    IF i > Len(patterns) THEN FALSE
    ELSE IF nameMatches(needle, patterns[i]) THEN TRUE
    ELSE MatchesFrom(needle, patterns, i + 1)

\* Mutation of needleMatchesPatterns: every pattern has to match.
needleMatchesPatternsAll(needle, patterns) ==
    \A i \in 1..Len(patterns) : nameMatches(needle, patterns[i])

\* Mutation of needleMatchesPatterns: an empty pattern list matches nothing.
needleMatchesPatternsClosed(needle, patterns) == MatchesFrom(needle, patterns, 1)

needleMatchesPatterns(needle, patterns) ==
    IF Len(patterns) = 0 THEN TRUE
    ELSE MatchesFrom(needle, patterns, 1)

(***************************************************************************)
(* Pod observations.  A pod is the part of corev1.Pod the watcher reads:   *)
(* Namespace, Name, Labels, the declared init and regular containers       *)
(* (their names) and the two status lists.  A container status is          *)
(* [Name, RestartCount, State], State being [Running, Terminated]: the     *)
(* two pointers of corev1.ContainerState the watcher tests (both nil       *)
(* means the container is waiting).                                        *)
(***************************************************************************)
Waiting == [Running |-> FALSE, Terminated |-> FALSE]

Running == [Running |-> TRUE, Terminated |-> FALSE]

Terminated == [Running |-> FALSE, Terminated |-> TRUE]

Namespaces == { <<"a">>, <<"b">> }

PodNames == { <<"p">> }

InitContainerName == <<"i">>

ContainerName == <<"c">>

RestartCounts == {0, 1}

AppLabel == <<"app", "x">>

StatusLists(name) ==
    { << >> } \cup
    { << [Name |-> name, RestartCount |-> rc, State |-> st] >> :
          rc \in RestartCounts, st \in {Waiting, Running, Terminated} }

PodObservations ==
    UNION { { [Namespace |-> ns, Name |-> n, Labels |-> ls,
               InitContainers |-> ic, Containers |-> << ContainerName >>,
               InitContainerStatuses |-> ics, ContainerStatuses |-> cs] :
                  ns \in Namespaces, n \in PodNames, ls \in { {}, {AppLabel} },
                  ics \in (IF ic = << >> THEN { << >> }
                                          ELSE StatusLists(InitContainerName)),
                  cs \in StatusLists(ContainerName) } :
            ic \in { << >>, << InitContainerName >> } }

(***************************************************************************)
(* pkg/watcher: matching criteria.                                         *)
(***************************************************************************)
NoSelector == << >>

resourceNameMatches(pod) == needleMatchesPatterns(pod.Name, opt.ResourceNames)

resourceNamespaceMatches(pod) == needleMatchesPatterns(pod.Namespace, opt.Namespaces)

\* labels.Selector.Matches for a selector of one equality requirement.
resourceLabelsMatches(pod) ==
    opt.LabelSelector = NoSelector \/ opt.LabelSelector[1] \in pod.Labels

podMatchesCriteria(pod) ==
    resourceNameMatches(pod) /\ resourceNamespaceMatches(pod) /\ resourceLabelsMatches(pod)

containerNameMatches(containerName) ==
    needleMatchesPatterns(containerName, opt.ContainerNames)

\* The part of corev1.Event the watcher reads: the involved object.
EventObservations ==
    { [InvolvedObject |-> [Kind |-> k, APIVersion |-> v, Namespace |-> ns, Name |-> n]] :
          k \in { "Pod", "Node" }, v \in { "v1", "v2" },
          ns \in Namespaces, n \in PodNames }

\* Mutation of eventMatchesCriteria: the label selector is applied to the
\* dummy pod, which has no labels.
eventMatchesCriteriaLabels(event) ==
    /\ event.InvolvedObject.Kind = "Pod"
    /\ event.InvolvedObject.APIVersion = "v1"
    /\ podMatchesCriteria([Name |-> event.InvolvedObject.Name,
                           Namespace |-> event.InvolvedObject.Namespace, Labels |-> {}])

eventMatchesCriteria(event) ==
    /\ event.InvolvedObject.Kind = "Pod"
    /\ event.InvolvedObject.APIVersion = "v1"
    /\ resourceNameMatches([Name |-> event.InvolvedObject.Name,
                            Namespace |-> event.InvolvedObject.Namespace])
    /\ resourceNamespaceMatches([Name |-> event.InvolvedObject.Name,
                                 Namespace |-> event.InvolvedObject.Namespace])

(***************************************************************************)
(* fmt.Sprintf: %d and %03d of a non-negative integer, and the identity    *)
(* of a container incarnation, "%s:%s:%s:%d".                              *)
(***************************************************************************)
Digit(d) == << "0", "1", "2", "3", "4", "5", "6", "7", "8", "9" >>[d + 1]

RECURSIVE Itoa(_)
Itoa(n) == IF n < 10 THEN << Digit(n) >> ELSE Itoa(n \div 10) \o << Digit(n % 10) >>

Pad3(n) ==
    LET d == Itoa(n)
    IN  IF Len(d) >= 3 THEN d
        ELSE IF Len(d) = 2 THEN << "0" >> \o d
        ELSE << "0", "0" >> \o d

\* Mutation of ident: the UID of the pod, where the observation carries
\* one, is part of the identity.
identWithUID(pod, containerName, status) ==
    pod.Namespace \o << ":" >> \o pod.Name \o << ":" >> \o containerName
        \o << ":" >> \o Itoa(status.RestartCount)
        \o (IF "UID" \in DOMAIN pod THEN << ":", pod.UID >> ELSE << >>)

ident(pod, containerName, status) ==
    pod.Namespace \o << ":" >> \o pod.Name \o << ":" >> \o containerName
        \o << ":" >> \o Itoa(status.RestartCount)

(***************************************************************************)
(* pkg/watcher: startLogCollectorsForContainers.                           *)
(***************************************************************************)
\* "for i, s := range statuses { if s.Name == containerName ..." : the index
\* of the first status of that name, 0 when status stays nil.
statusIndex(statuses, containerName) ==
    LET idx == { i \in 1..Len(statuses) : statuses[i].Name = containerName }
    IN  IF idx = {} THEN 0 ELSE CHOOSE i \in idx : \A j \in idx : i <= j

\* pkg/collector: getContainerIncarnation reads the regular containers' statuses.
getContainerIncarnation(pod, containerName) ==
    LET k == statusIndex(pod.ContainerStatuses, containerName)
    IN  IF k = 0 THEN 0 ELSE pod.ContainerStatuses[k].RestartCount

\* Mutation of statusWanted: the running-only option is ignored.
statusWantedAnyEnd(status) == status.State.Running \/ status.State.Terminated

\* The phase test: FALSE where the loop continues with the next container.
statusWanted(status) ==
    IF opt.RunningOnly
    THEN status.State.Running
    ELSE status.State.Running \/ status.State.Terminated

\* What "go w.collectLogs(ctx, wg, log, pod, containerName, restartCount)" hands
\* to the goroutine.  Of the pod snapshot the goroutine and the disk collector
\* read the namespace, the name and, through getContainerIncarnation, the
\* restart count that pod.Status.ContainerStatuses holds for the container:
\* the snapshot never changes, so the task carries that number.
captureTask(pod, containerName, status) ==
    [pod |-> [Namespace |-> pod.Namespace, Name |-> pod.Name],
     containerName |-> containerName,
     restartCount |-> status.RestartCount,
     incarnation |-> getContainerIncarnation(pod, containerName)]

\* Mutation of alreadySeen: the incarnation is never recognised.
alreadySeenNever(seen, id) == FALSE

\* Mutation of alreadySeen: the identity of a capture task that has failed
\* is given out again.
alreadySeenUnlessFailed(seen, id) ==
    /\ id \in seen
    /\ ~\E t \in BagToSet(failures) :
            ident(t.pod, t.containerName, [RestartCount |-> t.restartCount]) = id

\* "if w.seenContainers.Has(ident) { continue }"
alreadySeen(seen, id) == id \in seen

\* Mutation of containerStep: a container without a status is remembered as
\* its incarnation 0.
containerStepClaimsEarly(pod, containerName, statuses, acc) ==
    LET k      == statusIndex(statuses, containerName)
        status == statuses[k]
        id     == ident(pod, containerName, status)
        id0    == ident(pod, containerName, [RestartCount |-> 0])
    IN  IF ~containerNameMatches(containerName) THEN acc
        ELSE IF k = 0 THEN [seen |-> acc.seen \cup {id0}, launched |-> acc.launched]
        ELSE IF ~statusWanted(status) THEN acc
        ELSE IF alreadySeen(acc.seen, id) THEN acc
        ELSE [seen     |-> acc.seen \cup {id},
              launched |-> Append(acc.launched,
                                  captureTask(pod, containerName, status))]

\* Mutation of containerStep: the incarnation is remembered before the phase
\* is tested.
containerStepClaimsBeforePhase(pod, containerName, statuses, acc) ==
    LET k      == statusIndex(statuses, containerName)
        status == statuses[k]
        id     == ident(pod, containerName, status)
    IN  IF ~containerNameMatches(containerName) THEN acc
        ELSE IF k = 0 THEN acc
        ELSE IF alreadySeen(acc.seen, id) THEN acc
        ELSE IF ~statusWanted(status)
             THEN [seen |-> acc.seen \cup {id}, launched |-> acc.launched]
        ELSE [seen     |-> acc.seen \cup {id},
              launched |-> Append(acc.launched,
                                  captureTask(pod, containerName, status))]

\* One iteration of "for _, container := range containers": acc is the
\* seenContainers set and the goroutines started so far.
containerStep(pod, containerName, statuses, acc) ==
    LET k      == statusIndex(statuses, containerName)
        status == statuses[k]
        id     == ident(pod, containerName, status)
    IN  IF ~containerNameMatches(containerName) THEN acc
        ELSE IF k = 0 THEN acc
        ELSE IF ~statusWanted(status) THEN acc
        ELSE IF alreadySeen(acc.seen, id) THEN acc
        ELSE [seen     |-> acc.seen \cup {id},
              launched |-> Append(acc.launched,
                                  captureTask(pod, containerName, status))]

RECURSIVE containersLoop(_, _, _, _, _)
containersLoop(pod, containers, statuses, i, acc) ==
    IF i > Len(containers) THEN acc
    ELSE containersLoop(pod, containers, statuses, i + 1,
                        containerStep(pod, containers[i], statuses, acc))

startLogCollectorsForContainers(pod, containers, statuses, acc) ==
    containersLoop(pod, containers, statuses, 1, acc)

\* startLogCollectors: the init containers, then the regular containers.
startLogCollectors(pod, seen) ==
    LET a0 == [seen |-> seen, launched |-> << >>]
        a1 == startLogCollectorsForContainers(pod, pod.InitContainers,
                                              pod.InitContainerStatuses, a0)
    IN  startLogCollectorsForContainers(pod, pod.Containers, pod.ContainerStatuses, a1)

(***************************************************************************)
(* pkg/collector: the disk collector's log destination.                    *)
(***************************************************************************)
\* diskCollector.directory, an absolute path.
Directory == << "/", "o" >>

\* filepath.Join of two clean elements: empty elements are ignored.
Join(dir, elem) ==
    IF Len(elem) = 0 THEN dir
    ELSE IF Len(dir) = 0 THEN elem
    ELSE dir \o << Separator >> \o elem

getDirectory(namespace) ==
    IF ~flatFiles THEN Join(Directory, namespace) ELSE Directory

\* filename of diskCollector.CollectLogs: "%s_%s_%03d.log" under the directory.
logFilename(t) ==
    Join(getDirectory(t.pod.Namespace),
         t.pod.Name \o << "_" >> \o t.containerName \o << "_" >>
             \o Pad3(t.incarnation) \o << ".", "l", "o", "g" >>)

(***************************************************************************)
(* History of the observations, for the statements about them.             *)
(***************************************************************************)
Identity(pod, containerName, restartCount) ==
    [Namespace |-> pod.Namespace, Name |-> pod.Name,
     containerName |-> containerName, restartCount |-> restartCount]

TaskIdentity(t) == Identity(t.pod, t.containerName, t.restartCount)

\* The phases that are accepted: Running always, Terminated unless runningOnly.
AcceptedPhase(state) == state.Running \/ (state.Terminated /\ ~opt.RunningOnly)

\* The declared containers of a pod with the status list each is looked up in.
Declared(pod) ==
    { << pod.InitContainers[i], pod.InitContainerStatuses >> :
          i \in 1..Len(pod.InitContainers) } \cup
    { << pod.Containers[i], pod.ContainerStatuses >> : i \in 1..Len(pod.Containers) }

Launched == running (+) finished

LaunchCount(id) ==
    LET ts == { t \in BagToSet(Launched) : TaskIdentity(t) = id }
        RECURSIVE Sum(_)
        Sum(S) == IF S = {} THEN 0
                  ELSE LET t == CHOOSE x \in S : TRUE
                       IN  CopiesIn(t, Launched) + Sum(S \ {t})
    IN  Sum(ts)

\* Identities a pod observation presents in an accepted phase while passing
\* the match criteria.
PresentedBy(pod) ==
    IF ~podMatchesCriteria(pod) THEN {}
    ELSE { Identity(pod, d[1], d[2][statusIndex(d[2], d[1])].RestartCount) :
               d \in { e \in Declared(pod) :
                           /\ containerNameMatches(e[1])
                           /\ statusIndex(e[2], e[1]) # 0
                           /\ AcceptedPhase(e[2][statusIndex(e[2], e[1])].State) } }

\* The phase of a status, by name.
PhaseName(state) ==
    IF state.Running THEN "running"
    ELSE IF state.Terminated THEN "terminated"
    ELSE "waiting"

\* Why an observation of a declared container presents no identity in an
\* accepted phase: it has no status, or the phase of its status.
Reason(d) ==
    LET k == statusIndex(d[2], d[1])
    IN  IF k = 0 THEN "nostatus" ELSE PhaseName(d[2][k].State)

ContainerKey(pod, containerName) ==
    [Namespace |-> pod.Namespace, Name |-> pod.Name, containerName |-> containerName]

LaunchedFor(key) ==
    { t \in BagToSet(Launched) : ContainerKey(t.pod, t.containerName) = key }

\* Declared containers that a matching pod observation shows without a status
\* or in a phase that is not accepted, while no incarnation of the container
\* has been launched yet.
PassedOverBy(pod) ==
    IF ~podMatchesCriteria(pod) THEN {}
    ELSE { [key |-> ContainerKey(pod, d[1]), reason |-> Reason(d)] :
               d \in { e \in Declared(pod) :
                           /\ containerNameMatches(e[1])
                           /\ \/ statusIndex(e[2], e[1]) = 0
                              \/ ~AcceptedPhase(e[2][statusIndex(e[2], e[1])].State)
                           /\ LaunchedFor(ContainerKey(pod, e[1])) = {} } }

(***************************************************************************)
(* pkg/watcher: Watch.                                                     *)
(***************************************************************************)
SeqToBag(s) ==
    LET els == Range(s)
    IN  [e \in els |-> Cardinality({ i \in 1..Len(s) : s[i] = e })]

\* Mutation of goCollectLogs: the goroutines are started without wg.Add(1).
goCollectLogsUncounted(r) ==
    /\ seenContainers' = r.seen
    /\ running' = running (+) SeqToBag(r.launched)
    /\ wg' = wg

\* What startLogCollectors leaves behind: r.seen is seenContainers after its
\* Inserts, r.launched the goroutines of its go statements, each with its
\* wg.Add(1).
goCollectLogs(r) ==
    /\ seenContainers' = r.seen
    /\ running' = running (+) SeqToBag(r.launched)
    /\ wg' = wg + Len(r.launched)

\* One iteration of either pod loop: podMatchesCriteria, then
\* startLogCollectors (every go statement with its wg.Add(1)).
\* The history is not kept.
NotKept == [on |-> FALSE]

\* The shapes of notifications whose payload does not convert.
MalformedShapes == { "malformed pod", "malformed event" }

\* The history before the first iteration.
NoStep ==
    [on |-> TRUE, source |-> "none", shape |-> "none", obs |-> << >>, outcome |-> "none",
     seenBefore |-> {}, launched |-> EmptyBag, skipped |-> {}, rejected |-> {},
     owners |-> {}, deleted |-> {}]

\* The history after an iteration: where the notification came from
\* ("initial" or "live"), its shape ("pod", "event" or one of MalformedShapes), the
\* observation, what became of the collector call, seenContainers before the
\* iteration, the capture tasks it started, the shapes of the malformed
\* notifications so far, the incarnations that pod observations have
\* shown without a task being started or having been started for them, and,
\* for notifications that carry a type and a pod with a UID, the UID of the
\* pod each task was started for and the UIDs of the pods notified as
\* deleted.
stepTaken(source, shape, obs, outcome, launched) ==
    IF ~lastStep.on THEN lastStep
    ELSE [on |-> TRUE, source |-> source, shape |-> shape, obs |-> obs,
          outcome |-> outcome, seenBefore |-> seenContainers, launched |-> launched,
          skipped |-> lastStep.skipped \cup (IF shape \in MalformedShapes THEN { shape } ELSE {}),
          rejected |-> lastStep.rejected \cup
              (IF shape = "pod" /\ launched = EmptyBag
               THEN { ident(obs, obs.ContainerStatuses[k].Name, obs.ContainerStatuses[k]) :
                          k \in 1..Len(obs.ContainerStatuses) } \ seenContainers
               ELSE {}),
          owners |-> lastStep.owners \cup
              (IF shape = "pod" /\ "UID" \in DOMAIN obs
               THEN { << TaskIdentity(task), obs.UID >> : task \in BagToSet(launched) }
               ELSE {}),
          deleted |-> lastStep.deleted \cup
              (IF shape = "pod" /\ "Type" \in DOMAIN obs /\ obs.Type = "DELETED"
               THEN { obs.UID }
               ELSE {})]

\* What may become of w.collector.CollectPodMetadata in dumpPodMetadata:
\* "skipped" without --metadata, else nil ("") or an error.
dumpPodMetadata(pod) ==
    IF ~opt.DumpMetadata THEN { "skipped" } ELSE { "", "failed" }

\* What may become of w.collector.CollectEvent in dumpEvent.
dumpEvent(event) ==
    IF ~opt.DumpEvents THEN { "skipped" } ELSE { "", "failed" }

\* Mutation of afterDumpPodMetadata: a failed metadata write ends
\* startLogCollectors.
afterDumpPodMetadataAborts(err) == err # "failed"

\* dumpPodMetadata logs the error and returns nothing: startLogCollectors
\* goes on to the containers.
afterDumpPodMetadata(err) == TRUE

\* startLogCollectors for a pod that matches: dumpPodMetadata, then the
\* containers.
\* obs is what the history keeps of the notification.
HandleMatchingPod(pod, obs, source, err) ==
    /\ IF afterDumpPodMetadata(err)
       THEN goCollectLogs(startLogCollectors(pod, seenContainers))
       ELSE UNCHANGED << seenContainers, running, wg >>
    /\ lastStep' = stepTaken(source, "pod", obs, err, running' (-) running)

\* The body of either pod loop for a pod: podMatchesCriteria, then
\* startLogCollectors (every go statement with its wg.Add(1)).  obs is what
\* the history keeps of the notification.
HandleNotification(pod, obs) ==
    /\ nObs' = nObs + 1
    /\ presented' = presented (+) SetToBag(PresentedBy(pod))
    /\ passedOver' = passedOver \cup PassedOverBy(pod)
    /\ IF podMatchesCriteria(pod)
       THEN \E err \in dumpPodMetadata(pod) : HandleMatchingPod(pod, obs, phase, err)
       ELSE /\ lastStep' = stepTaken(phase, "pod", obs, "none", EmptyBag)
            /\ UNCHANGED << seenContainers, running, wg >>
    /\ UNCHANGED << opt, flatFiles, finished, created, phase, channelVars, eventLoop,
                    failures, matcherVars, teeVars, sinkVars >>

\* One iteration of either pod loop.
HandlePod(pod) ==
    /\ nObs < MaxObs
    /\ HandleNotification(pod, pod)

\* One iteration of either event loop: eventMatchesCriteria, then dumpEvent,
\* whose error is logged.
HandleEvent(event, source) ==
    /\ nEvents' = nEvents + 1
    /\ \E err \in (IF eventMatchesCriteria(event) THEN dumpEvent(event) ELSE { "none" }) :
           lastStep' = stepTaken(source, "event", event, err, EmptyBag)
    /\ UNCHANGED << opt, flatFiles, seenContainers, running, finished, wg, created,
                    phase, nObs, presented, passedOver, podWatcher, eventWatcher,
                    eventLoop, cancelled, failures, initialPods, initialEvents,
                    matcherVars, teeVars, sinkVars >>

\* for i := range w.initialPods with the list left open: the pod is any one
\* of pods
WatchInitialPodIn(pods) ==
    /\ phase = "initial"
    /\ initialPods = << >>
    /\ nEvents = 0
    /\ \E pod \in pods : HandlePod(pod)

\* for i := range w.initialPods, the pod the next one of the list
WatchInitialPodListed ==
    /\ phase = "initial"
    /\ nEvents = 0
    /\ nObs < Len(initialPods)
    /\ HandlePod(initialPods[nObs + 1])

\* The loop over w.initialPods has ended (where the list is left open, and
\* initialPods is empty, it may end after any iteration).
initialPodsDone(n, pods) == n >= Len(pods)

\* for i := range w.initialEvents
WatchInitialEvent ==
    /\ phase = "initial"
    /\ initialPodsDone(nObs, initialPods)
    /\ nEvents < Len(initialEvents)
    /\ HandleEvent(initialEvents[nEvents + 1], "initial")

\* Mutation of initialEventsDone: the channels are read while initial events
\* are left.
initialEventsDoneEarly(n, events) == TRUE

\* The loop over w.initialEvents has ended.
initialEventsDone(n, events) == n = Len(events)

WatchInitialPod == WatchInitialPodIn(PodObservations)

\* Mutation of hasWatcher: a nil channel is ranged over as well.
hasWatcherAlways(w) == TRUE

\* "if eventWatcher != nil", "if podWatcher != nil"
hasWatcher(w) == w # "nil"

\* "if eventWatcher != nil { wg.Add(1); go func() { ... }() }"
goEventLoop ==
    IF hasWatcher(eventWatcher)
    THEN /\ wg' = wg + 1
         /\ eventLoop' = "running"
    ELSE UNCHANGED << wg, eventLoop >>

\* The initial list is exhausted: the event goroutine is started, podWatcher
\* is not nil and its channel is ranged over.
WatchStartLive ==
    /\ phase = "initial"
    /\ initialPodsDone(nObs, initialPods)
    /\ initialEventsDone(nEvents, initialEvents)
    /\ hasWatcher(podWatcher)
    /\ goEventLoop
    /\ phase' = "live"
    /\ UNCHANGED << opt, flatFiles, seenContainers, running, finished, created,
                    nObs, presented, passedOver, channelVars, failures,
                    lastStep, matcherVars, teeVars, sinkVars >>

\* The initial list is exhausted: the event goroutine is started, podWatcher
\* is nil (--oneshot) and Watch goes on to wg.Wait().
WatchSkipLive ==
    /\ phase = "initial"
    /\ initialPodsDone(nObs, initialPods)
    /\ initialEventsDone(nEvents, initialEvents)
    /\ ~hasWatcher(podWatcher)
    /\ goEventLoop
    /\ phase' = "wait"
    /\ UNCHANGED << opt, flatFiles, seenContainers, running, finished, created,
                    nObs, presented, passedOver, channelVars, failures,
                    lastStep, matcherVars, teeVars, sinkVars >>

\* for event := range podWatcher.ResultChan(), the pod one of pods
WatchLivePodIn(pods) ==
    /\ phase = "live"
    /\ podWatcher = "open"
    /\ \E pod \in pods : HandlePod(pod)

WatchLivePod == WatchLivePodIn(PodObservations)

\* watch.EventType of the notifications of a pod.
EventTypes == { "ADDED", "MODIFIED", "DELETED" }

\* for event := range podWatcher.ResultChan(), the notification one of
\* events with its Type and, in Object, a pod with its UID: the loop converts
\* event.Object and does not read event.Type.
WatchLiveNotificationIn(events) ==
    /\ phase = "live"
    /\ podWatcher = "open"
    /\ nObs < MaxNotifications
    /\ \E event \in events :
           HandleNotification(event.Object, event.Object @@ [Type |-> event.Type])

\* podWatcher.ResultChan() is closed by its producer, which ends the range
\* loop over it.
WatchChannelClosed ==
    /\ phase = "live"
    /\ podWatcher = "open"
    /\ podWatcher' = "closed"
    /\ phase' = "wait"
    /\ UNCHANGED << opt, flatFiles, seenContainers, running, finished, wg, created,
                    nObs, presented, passedOver, eventWatcher, eventLoop, nEvents,
                    cancelled, failures, initialPods, initialEvents, lastStep,
                    matcherVars, teeVars, sinkVars >>

\* Mutation of afterMalformed: the pod loop ends at a payload that does not
\* convert.
afterMalformedBreaks(ph) == "wait"

\* "continue": the loop stays where it is and reads the next notification.
afterMalformed(ph) == ph

\* The notification read from podWatcher.ResultChan() is no
\* *unstructured.Unstructured or does not convert into a pod: continue.
WatchLivePodMalformed ==
    /\ phase = "live"
    /\ podWatcher = "open"
    /\ nObs < MaxObs
    /\ nObs' = nObs + 1
    /\ phase' = afterMalformed(phase)
    /\ lastStep' = stepTaken("live", "malformed pod", << >>, "none", EmptyBag)
    /\ UNCHANGED << opt, flatFiles, seenContainers, running, finished, wg, created,
                    presented, passedOver, channelVars, eventLoop, failures,
                    matcherVars, teeVars, sinkVars >>

\* for event := range eventWatcher.ResultChan(), in the event goroutine.
WatchLiveEvent ==
    /\ eventLoop = "running"
    /\ eventWatcher = "open"
    /\ nEvents < Len(initialEvents) + MaxEvents
    /\ \E event \in EventObservations : HandleEvent(event, "live")

\* The notification read from eventWatcher.ResultChan() is no
\* *unstructured.Unstructured or does not convert into an event: continue.
WatchLiveEventMalformed ==
    /\ eventLoop = "running"
    /\ eventWatcher = "open"
    /\ nEvents < Len(initialEvents) + MaxEvents
    /\ nEvents' = nEvents + 1
    /\ lastStep' = stepTaken("live", "malformed event", << >>, "none", EmptyBag)
    /\ UNCHANGED << opt, flatFiles, seenContainers, running, finished, wg, created,
                    phase, nObs, presented, passedOver, podWatcher, eventWatcher,
                    eventLoop, cancelled, failures, initialPods, initialEvents,
                    matcherVars, teeVars, sinkVars >>

\* eventWatcher.ResultChan() is closed by its producer, which ends the range
\* loop of the event goroutine: wg.Done().
WatchEventChannelClosed ==
    /\ eventLoop = "running"
    /\ eventWatcher = "open"
    /\ eventWatcher' = "closed"
    /\ eventLoop' = "done"
    /\ wg' = wg - 1
    /\ UNCHANGED << opt, flatFiles, seenContainers, running, finished, created,
                    phase, nObs, presented, passedOver, podWatcher, nEvents,
                    cancelled, failures, initialPods, initialEvents, lastStep,
                    matcherVars, teeVars, sinkVars >>

\* The context given to Watch is cancelled.  Watch reads ctx nowhere but to
\* hand it on to the collector calls and to request.Stream.
Cancel ==
    /\ phase # "returned"
    /\ ~cancelled
    /\ cancelled' = TRUE
    /\ UNCHANGED << opt, flatFiles, seenContainers, running, finished, wg, created,
                    phase, nObs, presented, passedOver, podWatcher, eventWatcher,
                    eventLoop, nEvents, failures, initialPods, initialEvents,
                    lastStep,
                    matcherVars, teeVars, sinkVars >>

\* Mutation of wgWait: Watch does not wait.
wgWaitNot(n) == TRUE

\* wg.Wait() blocks until the counter is zero.
wgWait(n) == n = 0

\* wg.Wait() returns.
WatchReturn ==
    /\ phase = "wait"
    /\ wgWait(wg)
    /\ phase' = "returned"
    /\ UNCHANGED << opt, flatFiles, seenContainers, running, finished, wg, created,
                    nObs, presented, passedOver, channelVars, eventLoop, failures,
                    lastStep, matcherVars, teeVars, sinkVars >>

\* Mutation of wgDone: collectLogs returns without wg.Done().
wgDoneSkipped(n) == n

\* "defer wg.Done()" of collectLogs.
wgDone(n) == n - 1

\* collectLogs ends without a log file: request.Stream fails, or the disk
\* collector cannot make its directory or create the file; the error is
\* logged.
CollectLogsFails(t) ==
    /\ running' = running (-) SetToBag({t})
    /\ finished' = finished (+) SetToBag({t})
    /\ failures' = failures (+) SetToBag({t})
    /\ wg' = wgDone(wg)
    /\ UNCHANGED << opt, flatFiles, seenContainers, created, phase, nObs,
                    presented, passedOver, channelVars, eventLoop,
                    lastStep, matcherVars, teeVars, sinkVars >>

\* collectLogs whose io.Copy ends with an error after os.Create(filename):
\* reading the stream or writing the file fails; the error is logged.
CollectLogsBreaks(t) ==
    /\ created' = created (+) SetToBag({ logFilename(t) })
    /\ running' = running (-) SetToBag({t})
    /\ finished' = finished (+) SetToBag({t})
    /\ failures' = failures (+) SetToBag({t})
    /\ wg' = wgDone(wg)
    /\ UNCHANGED << opt, flatFiles, seenContainers, phase, nObs,
                    presented, passedOver, channelVars, eventLoop,
                    lastStep, matcherVars, teeVars, sinkVars >>

\* collectLogs with the disk collector: os.Create(filename), io.Copy, wg.Done.
CollectLogsToDisk(t) ==
    /\ created' = created (+) SetToBag({ logFilename(t) })
    /\ running' = running (-) SetToBag({t})
    /\ finished' = finished (+) SetToBag({t})
    /\ wg' = wgDone(wg)
    /\ UNCHANGED << opt, flatFiles, seenContainers, phase, nObs,
                    presented, passedOver, channelVars, eventLoop, failures,
                    lastStep, matcherVars, teeVars, sinkVars >>

collectLogs == \E t \in BagToSet(running) : CollectLogsFails(t) \/ CollectLogsToDisk(t)

\* A capture that breaks leaves the files of one that succeeds; the two are
\* told apart where the watcher's lifecycle is examined (SpecWatch).
collectLogsBroken == \E t \in BagToSet(running) : CollectLogsBreaks(t)

(***************************************************************************)
(* The watcher with the disk collector.                                    *)
(***************************************************************************)
\* The match criteria the watcher is constructed with: no filter at all; a
\* name list whose second pattern matches, with a namespace glob; a name glob
\* that matches no pod; a container name with a label selector.
Criteria ==
    { [ResourceNames |-> << >>, Namespaces |-> << >>,
       ContainerNames |-> << >>, LabelSelector |-> NoSelector],
      [ResourceNames |-> << <<"q">>, <<"p", "*">> >>, Namespaces |-> << <<"a", "*">> >>,
       ContainerNames |-> << >>, LabelSelector |-> NoSelector],
      [ResourceNames |-> << <<"q", "*">> >>, Namespaces |-> << >>,
       ContainerNames |-> << >>, LabelSelector |-> NoSelector],
      [ResourceNames |-> << >>, Namespaces |-> << >>,
       ContainerNames |-> << <<"c">> >>, LabelSelector |-> << AppLabel >>] }

Options ==
    { [ResourceNames |-> c.ResourceNames, Namespaces |-> c.Namespaces,
       ContainerNames |-> c.ContainerNames, LabelSelector |-> c.LabelSelector,
       RunningOnly |-> r, DumpMetadata |-> FALSE, DumpEvents |-> FALSE] :
          c \in Criteria, r \in BOOLEAN }

MatcherIdle ==
    /\ queryNeedle = << >>
    /\ queryPatterns = << >>
    /\ queryResult = << >>

NoCall == [op |-> "", arg |-> "", pc |-> "idle", aCalls |-> 0, bCalls |-> 0, aResult |-> "", bResult |-> ""]

SinkIdle ==
    /\ eventsAsText = FALSE
    /\ rawEvents = FALSE
    /\ files = << >>
    /\ mux = NoCall
    /\ calls = << >>

NoChunk == [data |-> << >>, err |-> ""]

TeeIdle ==
    /\ stream = [data |-> << >>, end |-> "EOF"]
    /\ streamPos = 0
    /\ pipe = [buf |-> << >>, closed |-> FALSE]
    /\ waiter = 0
    /\ aPC = "idle"
    /\ bPC = "idle"
    /\ aChunk = NoChunk
    /\ aGot = << >>
    /\ bGot = << >>
    /\ bEnd = ""
    /\ aErr = ""
    /\ returned = << >>
    /\ prefixFormat = << >>

Init ==
    /\ opt \in Options
    /\ flatFiles \in BOOLEAN
    /\ seenContainers = {}
    /\ running = EmptyBag
    /\ finished = EmptyBag
    /\ wg = 0
    /\ created = EmptyBag
    /\ phase = "initial"
    /\ nObs = 0
    /\ presented = EmptyBag
    /\ passedOver = {}
    /\ podWatcher \in { "nil", "open" }
    /\ eventWatcher = "nil"
    /\ eventLoop = "idle"
    /\ nEvents = 0
    /\ cancelled = FALSE
    /\ failures = EmptyBag
    /\ initialPods = << >>
    /\ initialEvents = << >>
    /\ lastStep = NotKept
    /\ MatcherIdle
    /\ TeeIdle
    /\ SinkIdle

Next ==
    \/ WatchInitialPod
    \/ WatchStartLive
    \/ WatchSkipLive
    \/ WatchLivePod
    \/ WatchChannelClosed
    \/ WatchReturn
    \/ collectLogs

Spec == Init /\ [][Next]_vars

(***************************************************************************)
(* The lifecycle of Watch: the two channels, the event goroutine, the      *)
(* cancellation of the context and the failures of capture tasks, for a    *)
(* watcher without filters.                                                *)
(***************************************************************************)
\* The pods the lifecycle is examined with: one regular container, in
\* either namespace, with every status list.
LifecyclePods ==
    { pod \in PodObservations : pod.Labels = {} /\ pod.InitContainers = << >> }

InitWatch ==
    /\ opt = [ResourceNames |-> << >>, Namespaces |-> << >>,
              ContainerNames |-> << >>, LabelSelector |-> NoSelector,
              RunningOnly |-> FALSE, DumpMetadata |-> FALSE, DumpEvents |-> FALSE]
    /\ flatFiles = FALSE
    /\ seenContainers = {}
    /\ running = EmptyBag
    /\ finished = EmptyBag
    /\ wg = 0
    /\ created = EmptyBag
    /\ phase = "initial"
    /\ nObs = 0
    /\ presented = EmptyBag
    /\ passedOver = {}
    /\ podWatcher \in { "nil", "open" }
    /\ eventWatcher \in { "nil", "open" }
    /\ eventLoop = "idle"
    /\ nEvents = 0
    /\ cancelled = FALSE
    /\ failures = EmptyBag
    /\ initialPods = << >>
    /\ initialEvents = << >>
    /\ lastStep = NotKept
    /\ MatcherIdle
    /\ TeeIdle
    /\ SinkIdle

\* The steps of the goroutine that runs Watch which do not wait for anybody
\* else.
WatchProceeds == WatchStartLive \/ WatchSkipLive \/ WatchReturn

\* The steps of the capture tasks.
CaptureEnds == collectLogs \/ collectLogsBroken

NextWatch ==
    \/ WatchInitialPodIn(LifecyclePods)
    \/ WatchProceeds
    \/ WatchLivePodIn(LifecyclePods)
    \/ WatchChannelClosed
    \/ WatchLiveEvent
    \/ WatchEventChannelClosed
    \/ Cancel
    \/ CaptureEnds

SpecWatch == InitWatch /\ [][NextWatch]_vars

\* Watch runs on when it can, and every opened log stream ends or fails.
\* Nothing makes a producer close its channel or send on it.
SpecWatchLive ==
    InitWatch /\ [][NextWatch]_vars /\ WF_vars(WatchProceeds) /\ WF_vars(CaptureEnds)

(***************************************************************************)
(* Statements about the lifecycle of Watch.                                *)
(***************************************************************************)
\* C17: when Watch has returned, the pod channel it was given is closed, the
\* event channel it was given is closed and the goroutine reading it has
\* ended, and no capture task is running: every task launched has finished.
C17_ReturnsAfterAll ==
    phase = "returned" =>
        /\ podWatcher \in { "nil", "closed" }
        /\ eventWatcher \in { "nil", "closed" }
        /\ eventLoop # "running"
        /\ running = EmptyBag
        /\ Launched = finished

\* Watch has returned after both channels were closed, an event was received
\* and two capture tasks ended.
C17_Witness ==
    /\ phase = "returned"
    /\ podWatcher = "closed"
    /\ eventWatcher = "closed"
    /\ nEvents = 1
    /\ BagCardinality(finished) = 2

\* Snapshot-only mode (--oneshot): Watch is given no channel.
OneShot == podWatcher = "nil" /\ eventWatcher = "nil"

\* C18: in snapshot-only mode Watch never ranges over a channel and starts no
\* event goroutine, handles no observation once the initial list is left,
\* has returned only with no capture task running, and, every capture task
\* ending at some time, does return.
C18_OneShotTerminates ==
    /\ [](OneShot => (phase # "live" /\ eventLoop = "idle"))
    /\ [][(OneShot /\ phase # "initial") => nObs' = nObs]_vars
    /\ []((OneShot /\ phase = "returned") => (running = EmptyBag /\ Launched = finished))
    /\ (OneShot ~> phase = "returned")

\* Snapshot-only mode: Watch has returned after the two pods of the initial
\* list each had a capture task, one of which failed.
C18_Witness ==
    /\ OneShot
    /\ phase = "returned"
    /\ nObs = 2
    /\ BagCardinality(finished) = 2
    /\ BagCardinality(failures) = 1

\* C19: once the context is cancelled no observation arriving on the pod
\* channel launches a capture task any more, and Watch returns, whether or
\* not the producers close the channels.
C19_CancellationStops ==
    /\ [][(cancelled /\ phase = "live") => Launched' = Launched]_vars
    /\ (cancelled ~> phase = "returned")

PresentedIdentities == BagToSet(presented)

LaunchedIdentities == { TaskIdentity(t) : t \in BagToSet(Launched) }

TaskIdent(t) == ident(t.pod, t.containerName, [RestartCount |-> t.restartCount])

\* C1: at most one capture task is ever launched per identity (namespace, pod
\* name, container name, restartCount), and exactly one for every identity that
\* a pod passing the match criteria has presented in an accepted phase, however
\* often it was presented.
C1_OneTaskPerIdentity ==
    /\ \A id \in LaunchedIdentities : LaunchCount(id) = 1
    /\ \A id \in PresentedIdentities : LaunchCount(id) = 1

\* An identity has been presented by two observations and has its one task.
C1_Witness ==
    \E id \in PresentedIdentities :
        CopiesIn(id, presented) = 2 /\ LaunchCount(id) = 1

\* C2: a container of one pod presented in an accepted phase with restart
\* count 0 and with restart count 1 has two capture tasks, and the two tasks
\* write to two distinct destinations.
C2_RestartNewDestination ==
    \A id0, id1 \in PresentedIdentities :
        ( /\ ContainerKey(id0, id0.containerName) = ContainerKey(id1, id1.containerName)
          /\ id0.restartCount = 0
          /\ id1.restartCount = 1 )
        => \E t0, t1 \in BagToSet(Launched) :
               /\ TaskIdentity(t0) = id0
               /\ TaskIdentity(t1) = id1
               /\ logFilename(t0) # logFilename(t1)

\* C3: the log destination of the disk collector is injective in the identity:
\* two launched tasks of distinct identities have distinct log files, and no
\* log file is created by two capture tasks.
C3_DestinationInjective ==
    /\ \A t1, t2 \in BagToSet(Launched) :
           TaskIdentity(t1) # TaskIdentity(t2) => logFilename(t1) # logFilename(t2)
    /\ \A f \in BagToSet(created) : CopiesIn(f, created) = 1

\* C4: a capture task is launched only for an identity that was presented
\* Running, or Terminated while runningOnly is false (never for a Waiting
\* status), and every identity so presented has its capture task.
C4_PhaseGating ==
    /\ LaunchedIdentities = PresentedIdentities
    /\ \A p \in passedOver : p.reason # "running"
    /\ \A p \in passedOver : p.reason = "terminated" => opt.RunningOnly

\* A Terminated container was passed over under runningOnly and has no task,
\* while another container has a task.
C4_Witness ==
    /\ opt.RunningOnly
    /\ Launched # EmptyBag
    /\ \E p \in passedOver : p.reason = "terminated" /\ LaunchedFor(p.key) = {}

\* C5: a declared container observed without a status launches nothing and
\* claims no identity (every claimed identity is that of a launched task whose
\* status was presented in an accepted phase), and whenever the container is
\* presented later in an accepted phase the capture task is launched.
C5_NoStatusThenLaunch ==
    /\ \A s \in seenContainers :
           \E t \in BagToSet(Launched) :
               TaskIdent(t) = s /\ TaskIdentity(t) \in PresentedIdentities
    /\ \A p \in passedOver :
           p.reason = "nostatus" =>
               \A id \in PresentedIdentities :
                   ContainerKey(id, id.containerName) = p.key => LaunchCount(id) = 1

\* A container first observed without a status has a capture task.
C5_Witness ==
    \E p \in passedOver : p.reason = "nostatus" /\ LaunchedFor(p.key) # {}

AcceptAll ==
    /\ opt.ResourceNames = << >>
    /\ opt.Namespaces = << >>
    /\ opt.ContainerNames = << >>
    /\ opt.LabelSelector = NoSelector

\* C6: with empty name, namespace and container pattern lists and no label
\* selector, every pod and every declared container passes the name,
\* namespace, label and container-name checks.
C6_EmptyPatternsAcceptAll ==
    AcceptAll =>
        \A pod \in PodObservations :
            /\ podMatchesCriteria(pod)
            /\ \A d \in Declared(pod) : containerNameMatches(d[1])

\* Without any pattern, tasks of both namespaces and both containers run.
C6_Witness ==
    /\ AcceptAll
    /\ \A ns \in Namespaces : \E t \in BagToSet(Launched) : t.pod.Namespace = ns
    /\ \A c \in {InitContainerName, ContainerName} :
           \E t \in BagToSet(Launched) : t.containerName = c

(***************************************************************************)
(* The pattern matcher on its own: one call of needleMatchesPatterns.      *)
(* Values are names of Kubernetes objects (lower-case letters, digits,     *)
(* "-"); patterns are what the command line gives, any string.             *)
(***************************************************************************)
RECURSIVE SeqsUpTo(_, _)
SeqsUpTo(S, n) ==
    IF n = 0 THEN { << >> }
    ELSE LET shorter == SeqsUpTo(S, n - 1)
         IN  shorter \cup { Append(s, c) : s \in shorter, c \in S }

NameChars == { "a", "b" }

PatternChars == { "a", "b", "*", "?", "[", "]", "\\", "-", "^" }

KubeStar == << "k", "u", "b", "e", "-", "*" >>

KubeSystem == << "k", "u", "b", "e", "-", "s", "y", "s", "t", "e", "m" >>

KubeProxy == << "k", "u", "b", "e", "-", "p", "r", "o", "x", "y" >>

Default == << "d", "e", "f", "a", "u", "l", "t" >>

Needles ==
    (SeqsUpTo(NameChars, MaxNameLen) \ { << >> }) \cup { KubeSystem, KubeProxy, Default }

ShortPatterns == SeqsUpTo(PatternChars, MaxPatLen)

\* Patterns that pattern lists of several entries are made of: literals,
\* globs, character classes, and malformed patterns with and without a "*".
Catalogue ==
    { << "a" >>, << "a", "b" >>, << "a", "?" >>, << "*" >>, << "a", "*" >>,
      << "*", "b" >>, << "?", "*" >>, KubeStar,
      << "[", "a", "]", "*" >>, << "[", "^", "a", "]", "*" >>,
      << "*", "[", "a", "-", "b", "]" >>, << "\\", "a", "*" >>,
      << "[", "a", "*" >>, << "*", "[" >>, << "a", "*", "\\" >>,
      << "*", "[", "b", "-", "]" >>, << "[", "a" >> }

PatternLists ==
    SeqsUpTo(Catalogue, MaxPatterns) \cup { << p >> : p \in ShortPatterns }

WatcherIdle ==
    /\ opt = [ResourceNames |-> << >>, Namespaces |-> << >>,
              ContainerNames |-> << >>, LabelSelector |-> NoSelector,
              RunningOnly |-> FALSE, DumpMetadata |-> FALSE, DumpEvents |-> FALSE]
    /\ flatFiles = FALSE
    /\ seenContainers = {}
    /\ running = EmptyBag
    /\ finished = EmptyBag
    /\ wg = 0
    /\ created = EmptyBag
    /\ phase = "initial"
    /\ nObs = 0
    /\ presented = EmptyBag
    /\ passedOver = {}
    /\ podWatcher = "nil"
    /\ eventWatcher = "nil"
    /\ eventLoop = "idle"
    /\ nEvents = 0
    /\ cancelled = FALSE
    /\ failures = EmptyBag
    /\ initialPods = << >>
    /\ initialEvents = << >>
    /\ lastStep = NotKept

InitMatch ==
    /\ queryNeedle \in Needles
    /\ queryPatterns \in PatternLists
    /\ queryResult = << >>
    /\ WatcherIdle
    /\ TeeIdle
    /\ SinkIdle

\* A call of needleMatchesPatterns(needle, patterns) returns.
MatchQuery ==
    /\ queryResult = << >>
    /\ queryResult' = << needleMatchesPatterns(queryNeedle, queryPatterns) >>
    /\ UNCHANGED << queryNeedle, queryPatterns, watcherVars, teeVars, sinkVars >>

NextMatch == MatchQuery

SpecMatch == InitMatch /\ [][NextMatch]_vars

(***************************************************************************)
(* Shell-glob semantics, stated from the grammar of patterns: a pattern is *)
(* a sequence of terms, "*" (any run of non-separator characters), "?"     *)
(* (one non-separator character), a character class "[" ["^"] ranges "]"   *)
(* with at least one range, an escaped character, or a literal character;  *)
(* a pattern that is no such sequence is malformed.                        *)
(***************************************************************************)
BadTerms == [ok |-> FALSE, terms |-> << >>]

\* One character of a range: [ok, c, rest].
RangeChar(p) ==
    IF Len(p) = 0 \/ p[1] \in { "-", "]" } THEN [ok |-> FALSE, c |-> 0, rest |-> << >>]
    ELSE IF p[1] = "\\"
         THEN IF Len(p) < 2 THEN [ok |-> FALSE, c |-> 0, rest |-> << >>]
              ELSE [ok |-> TRUE, c |-> Code(p[2]), rest |-> Drop(p, 2)]
    ELSE [ok |-> TRUE, c |-> Code(p[1]), rest |-> Tail(p)]

\* The ranges of a class up to its closing "]": [ok, ranges, rest].
RECURSIVE ClassRanges(_, _)
ClassRanges(p, ranges) ==
    IF Len(p) = 0 THEN [ok |-> FALSE, ranges |-> << >>, rest |-> << >>]
    ELSE IF p[1] = "]" /\ Len(ranges) > 0
    THEN [ok |-> TRUE, ranges |-> ranges, rest |-> Tail(p)]
    ELSE LET lo == RangeChar(p)
             hi == RangeChar(Tail(lo.rest))
         IN  IF ~lo.ok THEN [ok |-> FALSE, ranges |-> << >>, rest |-> << >>]
             ELSE IF Len(lo.rest) > 0 /\ lo.rest[1] = "-"
             THEN IF ~hi.ok THEN [ok |-> FALSE, ranges |-> << >>, rest |-> << >>]
                  ELSE ClassRanges(hi.rest, Append(ranges, << lo.c, hi.c >>))
             ELSE ClassRanges(lo.rest, Append(ranges, << lo.c, lo.c >>))

RECURSIVE Terms(_)
Terms(p) ==
    IF Len(p) = 0 THEN [ok |-> TRUE, terms |-> << >>]
    ELSE
    LET then(term, rest) ==
            LET more == Terms(rest)
            IN  IF more.ok THEN [ok |-> TRUE, terms |-> << term >> \o more.terms]
                ELSE BadTerms
        negated == Len(p) > 1 /\ p[2] = "^"
        class   == ClassRanges(Drop(p, IF negated THEN 2 ELSE 1), << >>)
    IN  IF p[1] = "*" THEN then([kind |-> "star"], Tail(p))
        ELSE IF p[1] = "?" THEN then([kind |-> "any"], Tail(p))
        ELSE IF p[1] = "\\"
        THEN IF Len(p) < 2 THEN BadTerms
             ELSE then([kind |-> "lit", c |-> p[2]], Drop(p, 2))
        ELSE IF p[1] = "["
        THEN IF ~class.ok THEN BadTerms
             ELSE then([kind |-> "class", negated |-> negated, ranges |-> class.ranges],
                       class.rest)
        ELSE then([kind |-> "lit", c |-> p[1]], Tail(p))

Malformed(p) == ~Terms(p).ok

RECURSIVE TermsAccept(_, _)
TermsAccept(terms, s) ==
    IF Len(terms) = 0 THEN Len(s) = 0
    ELSE
    LET term == terms[1]
    IN  IF term.kind = "star"
        THEN \E k \in 0..Len(s) :
                 /\ \A j \in 1..k : s[j] # Separator
                 /\ TermsAccept(Tail(terms), Drop(s, k))
        ELSE /\ Len(s) > 0
             /\ CASE term.kind = "any" -> s[1] # Separator
                   [] term.kind = "lit" -> s[1] = term.c
                   [] term.kind = "class" ->
                          (\E i \in 1..Len(term.ranges) :
                               /\ term.ranges[i][1] <= Code(s[1])
                               /\ Code(s[1]) <= term.ranges[i][2]) # term.negated
             /\ TermsAccept(Tail(terms), Tail(s))

GlobAccepts(p, v) == Terms(p).ok /\ TermsAccept(Terms(p).terms, v)

\* What one pattern accepts: a pattern with the wildcard "*" by shell-glob
\* semantics, any other pattern by equality.
PatternAccepts(p, v) == IF Contains(p, "*") THEN GlobAccepts(p, v) ELSE v = p

RemoveAt(s, i) == SubSeq(s, 1, i - 1) \o Drop(s, i)

C8_MalformedMatchesNothing ==
    queryResult # << >> =>
        \A i \in 1..Len(queryPatterns) :
            Malformed(queryPatterns[i]) =>
                /\ ~nameMatches(queryNeedle, queryPatterns[i])
                /\ queryResult[1] =
                       ( /\ Len(queryPatterns) > 1
                         /\ needleMatchesPatterns(queryNeedle, RemoveAt(queryPatterns, i)) )

\* A malformed pattern stands before a pattern that matches: the result is
\* that of the other pattern.
C8_Witness ==
    /\ queryPatterns = << << "*", "[" >>, << "a", "*" >> >>
    /\ queryNeedle = << "a", "b" >>
    /\ queryResult = << TRUE >>

(***************************************************************************)
(* The multiplex collector: one call of CollectLogs with a the disk        *)
(* collector and b the stream collector, as main wires them.  a reads the  *)
(* upstream through the tee reader, which writes every chunk it reads into *)
(* the pipe before it returns it; b reads the pipe.                        *)
(***************************************************************************)
MaxLogLen == 3

MaxChunk == 2

LogBytes == { "x", "\n" }

Streams ==
    { [data |-> d, end |-> e] : d \in SeqsUpTo(LogBytes, MaxLogLen), e \in { "EOF", "error" } }

\* The prefix patterns: the default of --prefix, a pattern with adjoining
\* placeholders, the empty pattern.
PrefixFormats ==
    { << "[", "%", "p", "N", "/", "%", "p", "n", ":", "%", "c", "]", " ", ">", ">" >>,
      << "%", "c", "%", "p", "n", " " >>,
      << >> }

\* The pod and the container whose log is captured.
CapturedPod == [Namespace |-> << "a" >>, Name |-> << "p" >>]

CapturedContainer == << "c" >>

Min(a, b) == IF a < b THEN a ELSE b

IsPrefix(s, t) == Len(s) <= Len(t) /\ s = SubSeq(t, 1, Len(s))

InitTee ==
    /\ stream \in Streams
    /\ streamPos = 0
    /\ pipe = [buf |-> << >>, closed |-> FALSE]
    /\ waiter = 0
    /\ aPC = "idle"
    /\ bPC = "idle"
    /\ aChunk = NoChunk
    /\ aGot = << >>
    /\ bGot = << >>
    /\ bEnd = ""
    /\ aErr = ""
    /\ returned = << >>
    /\ prefixFormat \in PrefixFormats
    /\ WatcherIdle
    /\ MatcherIdle
    /\ SinkIdle

\* CollectLogs makes the pipe and the tee reader and starts both goroutines.
MultiplexStart ==
    /\ aPC = "idle" /\ bPC = "idle" /\ returned = << >>
    /\ waiter' = waiter + 2
    /\ aPC' = "create"
    /\ bPC' = "read"
    /\ UNCHANGED << stream, streamPos, pipe, aChunk, aGot, bGot, bEnd, aErr, returned,
                    prefixFormat, matcherVars, watcherVars, sinkVars >>

\* a: os.Create succeeds.
DiskCreate ==
    /\ aPC = "create"
    /\ aPC' = "read"
    /\ UNCHANGED << stream, streamPos, pipe, waiter, bPC, aChunk, aGot, bGot, bEnd, aErr,
                    returned, prefixFormat, matcherVars, watcherVars, sinkVars >>

\* a: os.Create fails and a.CollectLogs returns before it has read anything.
DiskCreateFails ==
    /\ aPC = "create"
    /\ aErr' = "open"
    /\ aPC' = "close"
    /\ UNCHANGED << stream, streamPos, pipe, waiter, bPC, aChunk, aGot, bGot, bEnd,
                    returned, prefixFormat, matcherVars, watcherVars, sinkVars >>

\* The error io.Copy returns for what a Read returned: EOF ends the copy
\* without an error.
copyError(err) == IF err = "error" THEN "read" ELSE ""

\* What teeReader.Read hands to the pipe: the bytes it has just read.
teeWrite(buf, data) == buf \o data

\* a: io.Copy reads from the tee reader.  The upstream returns between one
\* and MaxChunk bytes, with the last bytes possibly its end as well, or no
\* byte and its end; the tee reader writes the bytes into the pipe.
TeeRead ==
    /\ aPC = "read"
    /\ LET remaining == Len(stream.data) - streamPos
       IN  IF remaining = 0
           THEN /\ aChunk' = [data |-> << >>, err |-> stream.end]
                /\ aErr' = copyError(stream.end)
                /\ aPC' = "close"
                /\ UNCHANGED << streamPos, pipe >>
           ELSE \E n \in 1..Min(MaxChunk, remaining) :
                \E err \in (IF n = remaining THEN { "", stream.end } ELSE { "" }) :
                    LET data == SubSeq(stream.data, streamPos + 1, streamPos + n)
                    IN  /\ aChunk' = [data |-> data, err |-> err]
                        /\ streamPos' = streamPos + n
                        /\ pipe' = [pipe EXCEPT !.buf = teeWrite(pipe.buf, data)]
                        /\ aPC' = "piping"
                        /\ UNCHANGED aErr
    /\ UNCHANGED << stream, waiter, bPC, aGot, bGot, bEnd, returned, prefixFormat, matcherVars, watcherVars, sinkVars >>

\* Mutation of pipeWriteDone: a pipe that buffers, its Write returns at once.
pipeWriteDoneBuffered(buf) == TRUE

\* pipeWriter.Write returns once the reader has taken every byte of it.
pipeWriteDone(buf) == Len(buf) = 0

\* a: the Write into the pipe returns, and teeReader.Read returns the chunk.
PipeWriteReturns ==
    /\ aPC = "piping"
    /\ pipeWriteDone(pipe.buf)
    /\ aPC' = "write"
    /\ UNCHANGED << stream, streamPos, pipe, waiter, bPC, aChunk, aGot, bGot, bEnd, aErr,
                    returned, prefixFormat, matcherVars, watcherVars, sinkVars >>

\* a: io.Copy writes the chunk to the log file, and reads on unless the
\* chunk came with the end of the upstream.
DiskWrite ==
    /\ aPC = "write"
    /\ aGot' = aGot \o aChunk.data
    /\ IF aChunk.err = ""
       THEN aPC' = "read" /\ UNCHANGED aErr
       ELSE aPC' = "close" /\ aErr' = copyError(aChunk.err)
    /\ UNCHANGED << stream, streamPos, pipe, waiter, bPC, aChunk, bGot, bEnd,
                    returned, prefixFormat, matcherVars, watcherVars, sinkVars >>

\* a: the write to the log file fails and io.Copy gives up.
DiskWriteFails ==
    /\ aPC = "write"
    /\ aErr' = "write"
    /\ aPC' = "close"
    /\ UNCHANGED << stream, streamPos, pipe, waiter, bPC, aChunk, aGot, bGot, bEnd,
                    returned, prefixFormat, matcherVars, watcherVars, sinkVars >>

\* a.CollectLogs has returned: pipeWriter.Close() and waiter.Done().
PipeWriterClose ==
    /\ aPC = "close"
    /\ pipe' = [pipe EXCEPT !.closed = TRUE]
    /\ waiter' = waiter - 1
    /\ aPC' = "done"
    /\ UNCHANGED << stream, streamPos, bPC, aChunk, aGot, bGot, bEnd, aErr,
                    returned, prefixFormat, matcherVars, watcherVars, sinkVars >>

\* Mutation of pipeRead: a read that takes less than the pending write loses
\* the rest of it.
pipeReadLossy(buf, k) == [data |-> SubSeq(buf, 1, k), rest |-> << >>]

\* pipeReader.Read into a buffer of k bytes: the first k bytes of the pending
\* write, the rest stays pending.
pipeRead(buf, k) == [data |-> SubSeq(buf, 1, k), rest |-> Drop(buf, k)]

\* b: the stream collector's reader reads from the pipe.
StreamRead ==
    /\ bPC = "read"
    /\ Len(pipe.buf) > 0
    /\ \E k \in 1..Len(pipe.buf) :
           /\ bGot' = bGot \o pipeRead(pipe.buf, k).data
           /\ pipe' = [pipe EXCEPT !.buf = pipeRead(pipe.buf, k).rest]
    /\ UNCHANGED << stream, streamPos, waiter, aPC, bPC, aChunk, aGot, aErr, bEnd,
                    returned, prefixFormat, matcherVars, watcherVars, sinkVars >>

\* What a read of the closed pipe returns: pipeWriter.Close() closes the pipe
\* without an error of its own, whatever a.CollectLogs returned, and the
\* reader gets io.EOF.
pipeCloseError(err) == "EOF"

\* b: the pipe is closed and empty, ReadString returns EOF, b.CollectLogs
\* returns and waiter.Done() runs.
StreamEOF ==
    /\ bPC = "read"
    /\ Len(pipe.buf) = 0
    /\ pipe.closed
    /\ bPC' = "done"
    /\ bEnd' = pipeCloseError(aErr)
    /\ waiter' = waiter - 1
    /\ UNCHANGED << stream, streamPos, pipe, aPC, aChunk, aGot, bGot, aErr,
                    returned, prefixFormat, matcherVars, watcherVars, sinkVars >>

\* Mutation of waiterWait: the wait is over when one goroutine is done.
waiterWaitOne(n) == n <= 1

\* waiter.Wait() blocks until the counter is zero.
waiterWait(n) == n = 0

\* Mutation of multiplexResult: the error of a.CollectLogs is returned.
multiplexResultOfA(aerr, berr) == IF aerr # "" THEN aerr ELSE "nil"

\* "return nil": the results of a.CollectLogs and b.CollectLogs were dropped
\* in the goroutines.
multiplexResult(aerr, berr) == "nil"

\* Watcher.collectLogs: "if err := w.collector.CollectLogs(...); err != nil"
\* logs "Failed to collect logs.".
failedToCollectLogs(err) == err # "nil"

\* waiter.Wait() returns and CollectLogs returns nil.
MultiplexReturn ==
    /\ aPC # "idle"
    /\ waiterWait(waiter)
    /\ returned = << >>
    /\ returned' = << multiplexResult(aErr, bEnd) >>
    /\ UNCHANGED << stream, streamPos, pipe, waiter, aPC, bPC, aChunk, aGot, bGot, bEnd, aErr,
                    prefixFormat, matcherVars, watcherVars, sinkVars >>

NextTee ==
    \/ MultiplexStart
    \/ DiskCreate
    \/ DiskCreateFails
    \/ TeeRead
    \/ PipeWriteReturns
    \/ DiskWrite
    \/ DiskWriteFails
    \/ PipeWriterClose
    \/ StreamRead
    \/ StreamEOF
    \/ MultiplexReturn

SpecTee == InitTee /\ [][NextTee]_vars

\* The steps of goroutine a and of goroutine b.
GoroutineA ==
    \/ DiskCreate
    \/ DiskCreateFails
    \/ TeeRead
    \/ PipeWriteReturns
    \/ DiskWrite
    \/ DiskWriteFails
    \/ PipeWriterClose

GoroutineB == StreamRead \/ StreamEOF

\* The Go scheduler lets every goroutine that can take a step take one: the
\* caller of CollectLogs, a and b.
SpecTeeLive ==
    /\ InitTee
    /\ [][NextTee]_vars
    /\ WF_vars(MultiplexStart \/ MultiplexReturn)
    /\ WF_vars(GoroutineA)
    /\ WF_vars(GoroutineB)

\* The destination of a worked: a.CollectLogs returned nil or the error of
\* the upstream.
DestinationWorked == aErr \in { "", "read" }

C10_Backpressure ==
    /\ [](streamPos - Len(aChunk.data) <= Min(Len(aGot), Len(bGot)))
    /\ [][streamPos' # streamPos =>
              (Len(pipe.buf) = 0 /\ Len(aGot) = streamPos /\ Len(bGot) = streamPos)]_vars

\* a waits in the pipe for b, which has taken part of the chunk, while the
\* upstream has more to give.
C10_Witness ==
    /\ aPC = "piping"
    /\ Len(pipe.buf) > 0
    /\ Len(bGot) > Len(aGot)
    /\ streamPos < Len(stream.data)

\* C11: when a read of the upstream has failed with an error, b does not
\* end its reading on a clean end of stream.
C11_ReadErrorReachesBoth ==
    (bPC = "done" /\ aChunk.err = "error") => bEnd # "EOF"

\* C12: when a has failed to open or to write its log file, b has still
\* received every byte of the upstream by the time the composite returns.
C12_FailureSparesOther ==
    (returned # << >> /\ aErr \in { "open", "write" }) => bGot = stream.data

\* C13: the composite CollectLogs returns only when a.CollectLogs and
\* b.CollectLogs have both returned, and once a read of the upstream has
\* returned its end, EOF or an error, the composite eventually returns.
C13_ReturnsAfterBoth ==
    /\ [](returned # << >> => (aPC = "done" /\ bPC = "done"))
    /\ ((aChunk.err # "") ~> (returned # << >>))

\* The upstream has failed after two bytes, both delegates are done and the
\* composite has returned.
C13_Witness ==
    /\ returned # << >>
    /\ aPC = "done"
    /\ bPC = "done"
    /\ aChunk.err = "error"
    /\ Len(bGot) = 2

(***************************************************************************)
(* Pod metadata and events.  The composite collector is the multiplex      *)
(* collector with the disk collector as a; its b is any Collector, whose   *)
(* calls return nil or an error.  A pod is here its namespace, its name    *)
(* and a version that stands for the rest of its manifest; an event is     *)
(* the namespace and the name of its involved object and a message.        *)
(***************************************************************************)
MaxCalls == 2

Versions == { 1, 2 }

Messages == { "m1", "m2" }

Manifests ==
    { [Namespace |-> ns, Name |-> n, Version |-> v] :
          ns \in Namespaces, n \in PodNames, v \in Versions }

Events ==
    { [InvolvedObject |-> [Namespace |-> ns, Name |-> n], Message |-> m] :
          ns \in Namespaces, n \in PodNames, m \in Messages }

\* What may go wrong in the disk collector: MkdirAll of the directory, the
\* opening of a file, the write into the opened file.
MetadataFaults == { "none", "mkdir", "open", "write" }

EventFaults == { "none", "mkdir", "text", "yaml" }

InitSink ==
    /\ eventsAsText \in BOOLEAN
    /\ rawEvents \in BOOLEAN
    /\ files = << >>
    /\ mux = NoCall
    /\ calls = << >>
    /\ opt = [ResourceNames |-> << >>, Namespaces |-> << >>,
              ContainerNames |-> << >>, LabelSelector |-> NoSelector,
              RunningOnly |-> FALSE, DumpMetadata |-> FALSE, DumpEvents |-> FALSE]
    /\ flatFiles \in BOOLEAN
    /\ seenContainers = {}
    /\ running = EmptyBag
    /\ finished = EmptyBag
    /\ wg = 0
    /\ created = EmptyBag
    /\ phase = "initial"
    /\ nObs = 0
    /\ presented = EmptyBag
    /\ passedOver = {}
    /\ podWatcher = "nil"
    /\ eventWatcher = "nil"
    /\ eventLoop = "idle"
    /\ nEvents = 0
    /\ cancelled = FALSE
    /\ failures = EmptyBag
    /\ initialPods = << >>
    /\ initialEvents = << >>
    /\ lastStep = NotKept
    /\ MatcherIdle
    /\ TeeIdle

\* sigs.k8s.io/yaml.Marshal of the pod, after "pod.APIVersion = "v1"" and
\* "pod.Kind = "Pod"".
Marshal(pod) ==
    [apiVersion |-> "v1", kind |-> "Pod",
     namespace |-> pod.Namespace, name |-> pod.Name, version |-> pod.Version]

metadataFilename(pod) ==
    Join(getDirectory(pod.Namespace), pod.Name \o << ".", "y", "a", "m", "l" >>)

\* os.Stat(filename) returns no error.
fileExists(fs, filename) == filename \in DOMAIN fs

\* os.WriteFile: the file is created or truncated, then written.
writeFile(fs, filename, content) == (filename :> << content >>) @@ fs

\* os.WriteFile whose write fails: the file is there, created or truncated.
writeFileBroken(fs, filename) == (filename :> << >>) @@ fs

\* "file exists already, do not overwrite"
metadataKept(fs, filename) == fileExists(fs, filename)

\* diskCollector.CollectPodMetadata on the files fs: the files after it and
\* the error it returns, "" for nil.
diskCollectPodMetadata(fs, pod, fault) ==
    IF fault = "mkdir" THEN [files |-> fs, err |-> "mkdir"]
    ELSE IF metadataKept(fs, metadataFilename(pod)) THEN [files |-> fs, err |-> ""]
    ELSE IF fault = "open" THEN [files |-> fs, err |-> "open"]
    ELSE IF fault = "write"
    THEN [files |-> writeFileBroken(fs, metadataFilename(pod)), err |-> "write"]
    ELSE [files |-> writeFile(fs, metadataFilename(pod), Marshal(pod)), err |-> ""]

\* The line dumpEventAsText writes: time, type, component, message, reason
\* and count of the event, not its involved object.
textEntry(event) == [format |-> "text", message |-> event.Message]

\* The document dumpEventAsYAML writes: "---", the event, a newline.
yamlEntry(event) ==
    [format |-> "yaml", namespace |-> event.InvolvedObject.Namespace,
     name |-> event.InvolvedObject.Name, message |-> event.Message]

textFilename(directory, event) ==
    Join(directory, event.InvolvedObject.Name
                        \o << ".", "e", "v", "e", "n", "t", "s", ".", "l", "o", "g" >>)

yamlFilename(directory, event) ==
    Join(directory, event.InvolvedObject.Name
                        \o << ".", "e", "v", "e", "n", "t", "s", ".", "y", "a", "m", "l" >>)

\* os.OpenFile(filename, O_WRONLY|O_CREATE|O_APPEND) and the write.
appendEntry(fs, filename, entry) ==
    (filename :> ((IF fileExists(fs, filename) THEN fs[filename] ELSE << >>)
                      \o << entry >>)) @@ fs

dumpEventAsText(fs, directory, event, fault) ==
    IF fault = "text" THEN [files |-> fs, err |-> "open"]
    ELSE [files |-> appendEntry(fs, textFilename(directory, event), textEntry(event)),
          err |-> ""]

dumpEventAsYAML(fs, directory, event, fault) ==
    IF fault = "yaml" THEN [files |-> fs, err |-> "open"]
    ELSE [files |-> appendEntry(fs, yamlFilename(directory, event), yamlEntry(event)),
          err |-> ""]

\* CollectEvent after "if c.eventsAsText { ... }", whose outcome is r.
eventAfterText(r, directory, event, fault) ==
    IF r.err # "" THEN r
    ELSE IF rawEvents THEN dumpEventAsYAML(r.files, directory, event, fault)
    ELSE r

\* diskCollector.CollectEvent on the files fs.
diskCollectEvent(fs, event, fault) ==
    IF ~eventsAsText /\ ~rawEvents THEN [files |-> fs, err |-> "disabled"]
    ELSE IF fault = "mkdir" THEN [files |-> fs, err |-> "mkdir"]
    ELSE eventAfterText(IF eventsAsText
                        THEN dumpEventAsText(fs, getDirectory(event.InvolvedObject.Namespace),
                                             event, fault)
                        ELSE [files |-> fs, err |-> ""],
                        getDirectory(event.InvolvedObject.Namespace), event, fault)

\* The composite CollectPodMetadata is called.
CollectPodMetadataCall ==
    /\ mux.pc = "idle"
    /\ Len(calls) < MaxCalls
    /\ \E pod \in Manifests :
           mux' = [op |-> "CollectPodMetadata", arg |-> pod, pc |-> "a",
                   aCalls |-> 0, bCalls |-> 0, aResult |-> "", bResult |-> ""]
    /\ UNCHANGED << eventsAsText, rawEvents, files, calls,
                    matcherVars, watcherVars, teeVars >>

\* The composite CollectEvent is called.
CollectEventCall ==
    /\ mux.pc = "idle"
    /\ Len(calls) < MaxCalls
    /\ \E event \in Events :
           mux' = [op |-> "CollectEvent", arg |-> event, pc |-> "a",
                   aCalls |-> 0, bCalls |-> 0, aResult |-> "", bResult |-> ""]
    /\ UNCHANGED << eventsAsText, rawEvents, files, calls,
                    matcherVars, watcherVars, teeVars >>

\* Mutation of muxAfterA: b is called whatever a returned.
muxAfterAAlways(err) == "b"

\* "if err := c.a.Collect...(ctx, ...); err != nil { return err }"
muxAfterA(err) == IF err # "" THEN "return" ELSE "b"

\* The composite call c returns result.
returnedCall(c, result) ==
    [op |-> c.op, arg |-> c.arg, aCalls |-> c.aCalls, bCalls |-> c.bCalls,
     aResult |-> c.aResult, bResult |-> c.bResult, result |-> result]

\* What c.a.Collect...() leaves: r the outcome of the disk collector.
afterA(r) ==
    /\ files' = r.files
    /\ IF muxAfterA(r.err) = "return"
       THEN /\ calls' = Append(calls, returnedCall([mux EXCEPT !.aCalls = @ + 1,
                                                               !.aResult = r.err], r.err))
            /\ mux' = NoCall
       ELSE /\ mux' = [mux EXCEPT !.pc = "b", !.aCalls = @ + 1, !.aResult = r.err]
            /\ UNCHANGED calls

\* c.a.CollectPodMetadata(ctx, pod) or c.a.CollectEvent(ctx, event) runs.
DelegateA ==
    /\ mux.pc = "a"
    /\ IF mux.op = "CollectPodMetadata"
       THEN \E fault \in MetadataFaults : afterA(diskCollectPodMetadata(files, mux.arg, fault))
       ELSE \E fault \in EventFaults : afterA(diskCollectEvent(files, mux.arg, fault))
    /\ UNCHANGED << eventsAsText, rawEvents, matcherVars, watcherVars, teeVars >>

\* "return c.b.Collect...(ctx, ...)": b returns nil or an error.
DelegateB ==
    /\ mux.pc = "b"
    /\ \E result \in { "", "b failed" } :
           calls' = Append(calls, returnedCall([mux EXCEPT !.bCalls = @ + 1,
                                                           !.bResult = result], result))
    /\ mux' = NoCall
    /\ UNCHANGED << eventsAsText, rawEvents, files, matcherVars, watcherVars, teeVars >>

NextSink ==
    \/ CollectPodMetadataCall
    \/ CollectEventCall
    \/ DelegateA
    \/ DelegateB

SpecSink == InitSink /\ [][NextSink]_vars

\* C14: every composite CollectPodMetadata or CollectEvent call that has
\* returned has called a once; when a failed it has not called b and has
\* returned the error of a; when a succeeded it has called b once and has
\* returned what b returned.
C14_SequentialDelegation ==
    /\ \A i \in 1..Len(calls) :
           /\ calls[i].aCalls = 1
           /\ calls[i].aResult # "" =>
                  (calls[i].bCalls = 0 /\ calls[i].result = calls[i].aResult)
           /\ calls[i].aResult = "" =>
                  (calls[i].bCalls = 1 /\ calls[i].result = calls[i].bResult)
    /\ mux.pc = "b" => (mux.aCalls = 1 /\ mux.aResult = "" /\ mux.bCalls = 0)

\* One call has failed in a and has not reached b, another has gone through
\* a and has failed in b.
C14_Witness ==
    /\ Len(calls) = 2
    /\ calls[1].aResult # "" /\ calls[1].bCalls = 0
    /\ calls[2].aResult = "" /\ calls[2].bCalls = 1 /\ calls[2].result = "b failed"

\* The calls the disk collector has answered: those of the composite calls
\* that have returned, and that of the composite call now in b.
DiskCalls == calls \o (IF mux.pc = "b" THEN << returnedCall(mux, "") >> ELSE << >>)

\* The composite call c is a metadata call for the pod of this namespace and
\* name that the disk collector has answered with nil.
RecordedMetadata(c, ns, n) ==
    /\ c.op = "CollectPodMetadata"
    /\ c.aResult = ""
    /\ c.arg.Namespace = ns
    /\ c.arg.Name = n

\* C15: after any sequence of metadata calls, the metadata file of a pod
\* holds exactly the manifest given to the first successful call for that
\* pod (later calls, also with a changed manifest, leave it alone).
C15_FirstWriterWins ==
    \A i \in 1..Len(DiskCalls) :
        (/\ DiskCalls[i].op = "CollectPodMetadata"
         /\ DiskCalls[i].aResult = ""
         /\ \A j \in 1..(i - 1) :
                ~RecordedMetadata(DiskCalls[j], DiskCalls[i].arg.Namespace,
                                  DiskCalls[i].arg.Name))
        => /\ fileExists(files, metadataFilename(DiskCalls[i].arg))
           /\ files[metadataFilename(DiskCalls[i].arg)] = << Marshal(DiskCalls[i].arg) >>

\* The composite call c is an event call for the object of this namespace and
\* name that the disk collector has answered with nil.
RecordedEvent(c, ns, n) ==
    /\ c.op = "CollectEvent"
    /\ c.aResult = ""
    /\ c.arg.InvolvedObject.Namespace = ns
    /\ c.arg.InvolvedObject.Name = n

\* The events of the successful calls for the object, in call order.
RECURSIVE RecordedEvents(_, _, _)
RecordedEvents(cs, ns, n) ==
    IF cs = << >> THEN << >>
    ELSE (IF RecordedEvent(Head(cs), ns, n) THEN << Head(cs).arg >> ELSE << >>)
             \o RecordedEvents(Tail(cs), ns, n)

\* What the file holds, nothing when it is not there.
Content(fs, filename) == IF fileExists(fs, filename) THEN fs[filename] ELSE << >>

\* C16: after any sequence of event calls, each event file of an object
\* holds one entry per successful call for that object, in call order.
C16_OneEntryPerCall ==
    \A ns \in Namespaces, n \in PodNames :
        LET object == [InvolvedObject |-> [Namespace |-> ns, Name |-> n]]
            events == RecordedEvents(DiskCalls, ns, n)
        IN  /\ eventsAsText =>
                   Content(files, textFilename(getDirectory(ns), object))
                       = [k \in 1..Len(events) |-> textEntry(events[k])]
            /\ rawEvents =>
                   Content(files, yamlFilename(getDirectory(ns), object))
                       = [k \in 1..Len(events) |-> yamlEntry(events[k])]

(***************************************************************************)
(* pkg/collector: the stream collector, as a function of the bytes it has  *)
(* read.                                                                   *)
(***************************************************************************)
Letters ==
    { "a", "b", "c", "d", "e", "f", "g", "h", "i", "j", "k", "l", "m",
      "n", "o", "p", "q", "r", "s", "t", "u", "v", "w", "x", "y", "z",
      "A", "B", "C", "D", "E", "F", "G", "H", "I", "J", "K", "L", "M",
      "N", "O", "P", "Q", "R", "S", "T", "U", "V", "W", "X", "Y", "Z" }

\* unicode.IsSpace, for the characters of the model.
Spaces == { " ", "\n", "\t", "\r" }

\* The last position of the run of letters that starts at i, i - 1 when
\* there is none: the "[a-zA-Z]+" of the placeholders expression.
RECURSIVE letterRun(_, _)
letterRun(s, i) ==
    IF i <= Len(s) /\ s[i] \in Letters THEN letterRun(s, i + 1) ELSE i - 1

\* The function given to ReplaceAllStringFunc.
placeholder(s, pod, containerName) ==
    IF s = << "%", "p", "n" >> THEN pod.Name
    ELSE IF s = << "%", "p", "N" >> THEN pod.Namespace
    ELSE IF s = << "%", "c" >> THEN containerName
    ELSE s

\* placeholders.ReplaceAllStringFunc from position i on; j is the end of the
\* run of letters after position i.
RECURSIVE replaceAllFrom(_, _, _, _, _)
replaceAllFrom(s, i, j, pod, containerName) ==
    IF i > Len(s) THEN << >>
    ELSE IF s[i] = "%" /\ j > i
    THEN placeholder(SubSeq(s, i, j), pod, containerName)
             \o replaceAllFrom(s, j + 1, letterRun(s, j + 2), pod, containerName)
    ELSE << s[i] >> \o replaceAllFrom(s, i + 1, letterRun(s, i + 2), pod, containerName)

\* strings.TrimSpace
RECURSIVE TrimLeft(_)
TrimLeft(s) == IF s # << >> /\ Head(s) \in Spaces THEN TrimLeft(Tail(s)) ELSE s

RECURSIVE TrimRight(_)
TrimRight(s) ==
    IF s # << >> /\ s[Len(s)] \in Spaces THEN TrimRight(SubSeq(s, 1, Len(s) - 1)) ELSE s

TrimSpace(s) == TrimRight(TrimLeft(s))

\* streamCollector.prefix
prefix(pod, containerName) ==
    TrimSpace(replaceAllFrom(prefixFormat, 1, letterRun(prefixFormat, 2), pod, containerName))

\* The position of the first newline of s, 0 when it has none.
RECURSIVE newlineFrom(_, _)
newlineFrom(s, i) ==
    IF i > Len(s) THEN 0 ELSE IF s[i] = "\n" THEN i ELSE newlineFrom(s, i + 1)

\* What a prefixer.New(stream, p) reader gives for the bytes s of the stream,
\* n the position of their first newline: p before every line, the
\* unfinished last one included.
RECURSIVE prefixerFrom(_, _, _)
prefixerFrom(s, n, p) ==
    IF s = << >> THEN << >>
    ELSE IF n = 0 THEN p \o s
    ELSE p \o SubSeq(s, 1, n) \o prefixerFrom(Drop(s, n), newlineFrom(Drop(s, n), 1), p)

\* The strings the loop of CollectLogs prints for the bytes s that
\* rd.ReadString('\n') reads up to EOF, n the position of their first
\* newline: ReadString returns what is left together with io.EOF, and the
\* loop breaks on it.
RECURSIVE printedFrom(_, _)
printedFrom(s, n) ==
    IF n = 0 THEN << >>
    ELSE << TrimSpace(SubSeq(s, 1, n)) >>
             \o printedFrom(Drop(s, n), newlineFrom(Drop(s, n), 1))

\* The lines prefixer.New(...) and the ReadString loop make of the bytes s.
printed(s, p) == printedFrom(prefixerFrom(s, newlineFrom(s, 1), p),
                             newlineFrom(prefixerFrom(s, newlineFrom(s, 1), p), 1))

\* streamCollector.CollectLogs: the lines it has printed when it returns
\* after reading the bytes s.
streamCollectLogs(s, pod, containerName) ==
    printed(s, prefix(pod, containerName) \o << " " >>)

(***************************************************************************)
(* Statements about the lines of the stream collector.                     *)
(***************************************************************************)
\* The lines of a stream: what lies between its newlines, and what follows
\* the last newline when that is not empty.
RECURSIVE InputLines(_)
InputLines(s) ==
    IF s = << >> THEN << >>
    ELSE IF newlineFrom(s, 1) = 0 THEN << s >>
    ELSE << SubSeq(s, 1, newlineFrom(s, 1) - 1) >> \o InputLines(Drop(s, newlineFrom(s, 1)))

IsSuffix(s, t) == Len(s) <= Len(t) /\ s = SubSeq(t, Len(t) - Len(s) + 1, Len(t))

\* The pattern with every "%pN", "%pn" and "%c" replaced.
RECURSIVE Expanded(_)
Expanded(f) ==
    IF f = << >> THEN << >>
    ELSE IF IsPrefix(<< "%", "p", "N" >>, f) THEN CapturedPod.Namespace \o Expanded(Drop(f, 3))
    ELSE IF IsPrefix(<< "%", "p", "n" >>, f) THEN CapturedPod.Name \o Expanded(Drop(f, 3))
    ELSE IF IsPrefix(<< "%", "c" >>, f) THEN CapturedContainer \o Expanded(Drop(f, 2))
    ELSE << Head(f) >> \o Expanded(Tail(f))

\* C23: when the stream collector has read a whole stream of k lines, it has
\* printed k lines, the i-th of which begins with the expanded prefix and
\* ends with the i-th line of the stream, whether or not the last line ends
\* with a newline.
C23_OneLinePerLine ==
    (bPC = "done" /\ bGot = stream.data) =>
        LET out == streamCollectLogs(bGot, CapturedPod, CapturedContainer)
            lines == InputLines(stream.data)
        IN  /\ Len(out) = Len(lines)
            /\ \A i \in 1..Len(out) :
                   /\ IsPrefix(TrimSpace(Expanded(prefixFormat)), out[i])
                   /\ IsSuffix(lines[i], out[i])

(***************************************************************************)
(* Statements about the order of the bytes in the composite capture.       *)
(***************************************************************************)
\* The bytes read from the upstream so far.
UpstreamRead == SubSeq(stream.data, 1, streamPos)

\* C30: at any time the bytes a (the tee reader side) has received are a
\* prefix of the bytes b (the pipe reader side) has received, which are a
\* prefix of the bytes read from the upstream; and a receives bytes only
\* when b has taken every byte read so far out of the pipe.
C30_SecondBeforeFirst ==
    /\ [](IsPrefix(aGot, bGot) /\ IsPrefix(bGot, UpstreamRead))
    /\ [][aGot' # aGot => (Len(pipe.buf) = 0 /\ bGot = UpstreamRead)]_vars

\* b has taken the whole second chunk while a has only the first one.
C30_Witness ==
    /\ Len(aGot) > 0
    /\ Len(bGot) > Len(aGot)
    /\ bGot = UpstreamRead
    /\ Len(pipe.buf) = 0

(***************************************************************************)
(* Statements about seenContainers and the WaitGroup of Watch.             *)
(***************************************************************************)
\* C21: seenContainers changes only in a step of the goroutine that runs
\* Watch, one iteration of a pod loop, never in a step of the event
\* goroutine or of a capture task, which run beside it; and a capture task
\* is launched only for an identity that was not in the set before the
\* step and is in it after the step, once.
C21_ClaimIsSequential ==
    /\ [][seenContainers' # seenContainers =>
              /\ phase \in { "initial", "live" }
              /\ nObs' = nObs + 1
              /\ UNCHANGED << finished, failures, nEvents, eventLoop, eventWatcher >>]_vars
    /\ [][\A t \in BagToSet(Launched') :
              CopiesIn(t, Launched') # CopiesIn(t, Launched) =>
                  /\ TaskIdent(t) \notin seenContainers
                  /\ TaskIdent(t) \in seenContainers'
                  /\ CopiesIn(t, Launched') = 1]_vars

\* An identity has been claimed while the event goroutine, which has
\* received an event, and the capture task of another identity are running.
C21_Witness ==
    /\ eventLoop = "running"
    /\ nEvents = 1
    /\ Cardinality(seenContainers) = 2
    /\ BagCardinality(running) = 2

\* C28: seenContainers is the set of the identities of the capture tasks
\* launched so far, each launched once, and the WaitGroup counts the capture
\* tasks that have not returned, plus one while the event goroutine runs.
C28_SeenIsLaunched ==
    /\ seenContainers = { TaskIdent(t) : t \in BagToSet(Launched) }
    /\ \A t \in BagToSet(Launched) : CopiesIn(t, Launched) = 1
    /\ Cardinality(seenContainers) = BagCardinality(Launched)
    /\ wg = BagCardinality(running) + (IF eventLoop = "running" THEN 1 ELSE 0)

\* Two identities are claimed, the task of one has returned, the other one
\* and the event goroutine are running.
C28_Witness ==
    /\ Cardinality(seenContainers) = 2
    /\ BagCardinality(finished) = 1
    /\ BagCardinality(running) = 1
    /\ eventLoop = "running"
    /\ wg = 2

\* C29: seenContainers never loses an identity, and the identity of a
\* capture task that has failed or ended stays claimed: no later step
\* launches another task for it.
C29_NeverReleased ==
    /\ [][seenContainers \subseteq seenContainers']_vars
    /\ [](\A t \in BagToSet(finished) : TaskIdent(t) \in seenContainers)
    /\ [][\A t \in BagToSet(finished) : CopiesIn(t, Launched') = CopiesIn(t, Launched)]_vars

\* The capture task of an identity has failed, the identity has been
\* presented a second time, and there is no other task.
C29_Witness ==
    /\ BagCardinality(failures) = 1
    /\ BagCardinality(Launched) = 1
    /\ \E t \in BagToSet(failures) : CopiesIn(TaskIdentity(t), presented) = 2

(***************************************************************************)
(* The loops of Watch, one iteration after the other, with the history of  *)
(* the last iteration kept: pods, events and malformed notifications,      *)
(* collector calls that fail.                                              *)
(***************************************************************************)
\* No filter; a namespace glob with a label selector and runningOnly; a name
\* glob that matches no pod; a container name that matches no container.
ReconcileOptions ==
    { [ResourceNames |-> << >>, Namespaces |-> << >>, ContainerNames |-> << >>,
       LabelSelector |-> NoSelector, RunningOnly |-> FALSE,
       DumpMetadata |-> TRUE, DumpEvents |-> TRUE],
      [ResourceNames |-> << >>, Namespaces |-> << <<"a", "*">> >>, ContainerNames |-> << >>,
       LabelSelector |-> << AppLabel >>, RunningOnly |-> TRUE,
       DumpMetadata |-> TRUE, DumpEvents |-> TRUE],
      [ResourceNames |-> << <<"q", "*">> >>, Namespaces |-> << >>, ContainerNames |-> << >>,
       LabelSelector |-> NoSelector, RunningOnly |-> FALSE,
       DumpMetadata |-> FALSE, DumpEvents |-> TRUE],
      [ResourceNames |-> << >>, Namespaces |-> << >>, ContainerNames |-> << <<"x">> >>,
       LabelSelector |-> NoSelector, RunningOnly |-> FALSE,
       DumpMetadata |-> TRUE, DumpEvents |-> FALSE] }

\* Pods with one regular container, with and without the label.
ReconcilePods == { pod \in PodObservations : pod.InitContainers = << >> }

\* A pod of ReconcilePods.
ReconcilePod(ns, labels, statuses) ==
    [Namespace |-> ns, Name |-> <<"p">>, Labels |-> labels,
     InitContainers |-> << >>, Containers |-> << ContainerName >>,
     InitContainerStatuses |-> << >>, ContainerStatuses |-> statuses]

\* The lists of pods found before the watch: none, one running container,
\* a pod without the label and the first pod after its container's restart.
InitialPodLists ==
    { << >>,
      << ReconcilePod(<<"a">>, {AppLabel},
                      << [Name |-> ContainerName, RestartCount |-> 0, State |-> Running] >>) >>,
      << ReconcilePod(<<"b">>, {},
                      << [Name |-> ContainerName, RestartCount |-> 1, State |-> Terminated] >>),
         ReconcilePod(<<"a">>, {AppLabel},
                      << [Name |-> ContainerName, RestartCount |-> 1, State |-> Running] >>) >> }

InitReconcile ==
    /\ opt \in ReconcileOptions
    /\ flatFiles = FALSE
    /\ seenContainers = {}
    /\ running = EmptyBag
    /\ finished = EmptyBag
    /\ wg = 0
    /\ created = EmptyBag
    /\ phase = "initial"
    /\ nObs = 0
    /\ presented = EmptyBag
    /\ passedOver = {}
    /\ podWatcher = "open"
    /\ eventWatcher = "open"
    /\ eventLoop = "idle"
    /\ nEvents = 0
    /\ cancelled = FALSE
    /\ failures = EmptyBag
    /\ initialPods \in InitialPodLists
    /\ initialEvents \in SeqsUpTo(EventObservations, 1)
    /\ lastStep = NoStep
    /\ MatcherIdle
    /\ TeeIdle
    /\ SinkIdle

NextReconcile ==
    \/ WatchInitialPodListed
    \/ WatchInitialEvent
    \/ WatchStartLive
    \/ WatchLivePodIn(ReconcilePods)
    \/ WatchLivePodMalformed
    \/ WatchLiveEvent
    \/ WatchLiveEventMalformed

SpecReconcile == InitReconcile /\ [][NextReconcile]_vars

(***************************************************************************)
(* Statements about the iterations of the loops of Watch.                  *)
(***************************************************************************)
\* One of the patterns accepts the value, or there is no pattern.
PatternsAccept(patterns, v) ==
    patterns = << >> \/ \E i \in 1..Len(patterns) : PatternAccepts(patterns[i], v)

\* The labels satisfy the selector of one equality requirement.
SelectorSatisfied(labels) ==
    opt.LabelSelector = NoSelector \/ opt.LabelSelector[1] \in labels

\* C22: the label selector is applied to pods only.  An event is accepted
\* (handed to dumpEvent) iff its involved object is a v1 Pod whose name and
\* namespace are accepted by the name and namespace patterns, whatever the
\* label selector is; a pod whose labels do not satisfy the selector starts
\* no capture task.
C22_SelectorForPodsOnly ==
    /\ (lastStep.on /\ lastStep.shape = "event") =>
           ((lastStep.outcome # "none") <=>
                /\ lastStep.obs.InvolvedObject.Kind = "Pod"
                /\ lastStep.obs.InvolvedObject.APIVersion = "v1"
                /\ PatternsAccept(opt.ResourceNames, lastStep.obs.InvolvedObject.Name)
                /\ PatternsAccept(opt.Namespaces, lastStep.obs.InvolvedObject.Namespace))
    /\ (lastStep.on /\ lastStep.shape = "pod" /\ ~SelectorSatisfied(lastStep.obs.Labels)) =>
           /\ lastStep.launched = EmptyBag
           /\ seenContainers = lastStep.seenBefore

\* An event was accepted while a label selector is set.
C22_Witness ==
    /\ lastStep.on
    /\ lastStep.shape = "event"
    /\ lastStep.outcome \in { "", "failed" }
    /\ opt.LabelSelector # NoSelector

\* The first of the checks that the one container of a pod of ReconcilePods
\* fails, "" if it passes the first six.
RejectedAt(pod) ==
    LET k == CHOOSE i \in 0..Len(pod.ContainerStatuses) :
                 \/ i > 0 /\ pod.ContainerStatuses[i].Name = pod.Containers[1]
                 \/ i = 0 /\ \A j \in 1..Len(pod.ContainerStatuses) :
                                  pod.ContainerStatuses[j].Name # pod.Containers[1]
    IN  IF ~PatternsAccept(opt.ResourceNames, pod.Name) THEN "name"
        ELSE IF ~PatternsAccept(opt.Namespaces, pod.Namespace) THEN "namespace"
        ELSE IF ~SelectorSatisfied(pod.Labels) THEN "labels"
        ELSE IF ~PatternsAccept(opt.ContainerNames, pod.Containers[1]) THEN "container name"
        ELSE IF k = 0 THEN "status present"
        ELSE IF ~(pod.ContainerStatuses[k].State.Running
                     \/ (pod.ContainerStatuses[k].State.Terminated /\ ~opt.RunningOnly))
             THEN "phase"
        ELSE ""

\* The incarnation that a pod with a status for its container shows.
ShownIdent(pod) ==
    ident(pod, pod.Containers[1], pod.ContainerStatuses[1])

\* C24: a pod observation rejected at the name, the namespace, the labels,
\* the container name, the missing status or the phase leaves seenContainers
\* as it was and starts no task; an observation that passes the six checks
\* and whose incarnation is not in seenContainers starts exactly the task of
\* that incarnation, whatever was rejected before; and seenContainers holds
\* only incarnations whose task was started.
C24_RejectionLeavesNoTrace ==
    /\ seenContainers = { TaskIdent(t) : t \in BagToSet(Launched) }
    /\ (lastStep.on /\ lastStep.shape = "pod") =>
           IF RejectedAt(lastStep.obs) # ""
           THEN /\ seenContainers = lastStep.seenBefore
                /\ lastStep.launched = EmptyBag
           ELSE IF ShownIdent(lastStep.obs) \in lastStep.seenBefore
           THEN /\ seenContainers = lastStep.seenBefore
                /\ lastStep.launched = EmptyBag
           ELSE /\ seenContainers = lastStep.seenBefore \cup { ShownIdent(lastStep.obs) }
                /\ BagCardinality(lastStep.launched) = 1
                /\ \A t \in BagToSet(lastStep.launched) :
                       TaskIdent(t) = ShownIdent(lastStep.obs)

\* A task was started for an incarnation that an earlier, rejected
\* observation had shown.
C24_Witness ==
    /\ lastStep.on
    /\ lastStep.shape = "pod"
    /\ \E t \in BagToSet(lastStep.launched) : TaskIdent(t) \in lastStep.rejected

\* C25: a notification whose payload does not convert into a pod (or an
\* event) has no effect: the iteration starts no task, writes nothing, leaves
\* seenContainers, the WaitGroup and the files as they were, and leaves the
\* loop and its channel where they were, so that the next notification of
\* the channel is read.
C25_MalformedIsSkipped ==
    /\ [](lastStep.on /\ lastStep.shape \in MalformedShapes =>
              seenContainers = lastStep.seenBefore /\ lastStep.launched = EmptyBag)
    /\ [][((nObs' # nObs \/ nEvents' # nEvents) /\ lastStep'.on
              /\ lastStep'.shape \in MalformedShapes) =>
                UNCHANGED << seenContainers, running, finished, wg, created, presented,
                             failures, phase, eventLoop, podWatcher, eventWatcher,
                             sinkVars >>]_vars

\* After a malformed notification on the pod channel the pod loop has read
\* a pod from it and started a task, and the event goroutine is still
\* running after a malformed notification on its channel.
C25_Witness ==
    /\ lastStep.on
    /\ lastStep.skipped = MalformedShapes
    /\ lastStep.shape = "pod"
    /\ lastStep.source = "live"
    /\ lastStep.launched # EmptyBag
    /\ eventLoop = "running"

\* C26: a failed metadata write does not end the iteration: the containers
\* of the pod are evaluated and their tasks started as startLogCollectors
\* does from the seenContainers of before, the same as after a write that
\* succeeded; an iteration with a failed write, of metadata or of an event,
\* leaves the loops of Watch and the channels where they were.
C26_WriteFailureDoesNotAbort ==
    /\ [](lastStep.on /\ lastStep.shape = "pod" /\ lastStep.outcome \in { "", "failed" } =>
              /\ seenContainers = startLogCollectors(lastStep.obs, lastStep.seenBefore).seen
              /\ lastStep.launched =
                     SeqToBag(startLogCollectors(lastStep.obs, lastStep.seenBefore).launched))
    /\ [][((nObs' # nObs \/ nEvents' # nEvents) /\ lastStep'.on
              /\ lastStep'.outcome = "failed") =>
                UNCHANGED << phase, eventLoop, podWatcher, eventWatcher, cancelled >>]_vars

\* A task was started in an iteration whose metadata write failed, while the
\* event goroutine runs.
C26_Witness ==
    /\ lastStep.on
    /\ lastStep.shape = "pod"
    /\ lastStep.outcome = "failed"
    /\ lastStep.launched # EmptyBag
    /\ eventLoop = "running"

\* The event goroutine is running after an event whose write failed.
C26_WitnessEvent ==
    /\ lastStep.on
    /\ lastStep.shape = "event"
    /\ lastStep.source = "live"
    /\ lastStep.outcome = "failed"
    /\ eventLoop = "running"

\* C27: the pods of the initial list are evaluated one by one in the order
\* of the list, each once, then the initial events likewise, all of it before
\* Watch reads a live channel: a notification of the pod channel or of the
\* event channel is consumed only after both lists are drained.
C27_InitialBeforeLive ==
    /\ [](phase # "initial" =>
              nObs >= Len(initialPods) /\ nEvents >= Len(initialEvents))
    /\ [][(nObs' # nObs /\ lastStep'.on) =>
              /\ nObs' = nObs + 1
              /\ IF nObs < Len(initialPods)
                 THEN /\ phase = "initial"
                      /\ nEvents = 0
                      /\ lastStep'.source = "initial"
                      /\ lastStep'.obs = initialPods[nObs']
                 ELSE /\ phase = "live"
                      /\ lastStep'.source = "live"]_vars
    /\ [][(nEvents' # nEvents /\ lastStep'.on) =>
              /\ nEvents' = nEvents + 1
              /\ IF nEvents < Len(initialEvents)
                 THEN /\ phase = "initial"
                      /\ nObs = Len(initialPods)
                      /\ lastStep'.source = "initial"
                      /\ lastStep'.obs = initialEvents[nEvents']
                 ELSE /\ phase # "initial"
                      /\ eventLoop = "running"
                      /\ lastStep'.source = "live"]_vars

\* Two initial pods and an initial event were handled, and then a
\* notification of the event channel.
C27_Witness ==
    /\ lastStep.on
    /\ Len(initialPods) = 2
    /\ Len(initialEvents) = 1
    /\ nObs = 2
    /\ nEvents = 2
    /\ lastStep.source = "live"

(***************************************************************************)
(* The pod loop of Watch with notifications of every type about the pods   *)
(* that have had one namespace and name, one after the other.              *)
(***************************************************************************)
\* Pod a/p as one pod (u1) and as the pod created after it under the same
\* name (u2), its container without status, running or terminated, before or
\* after a restart.
RecreatedPods ==
    { [Namespace |-> <<"a">>, Name |-> <<"p">>, UID |-> uid, Labels |-> {},
       InitContainers |-> << >>, Containers |-> << ContainerName >>,
       InitContainerStatuses |-> << >>, ContainerStatuses |-> cs] :
          uid \in { "u1", "u2" },
          cs \in { << >>,
                   << [Name |-> ContainerName, RestartCount |-> 0, State |-> Running] >>,
                   << [Name |-> ContainerName, RestartCount |-> 0, State |-> Terminated] >>,
                   << [Name |-> ContainerName, RestartCount |-> 1, State |-> Running] >> } }

Notifications == [Type : EventTypes, Object : RecreatedPods]

WatchLiveNotification == WatchLiveNotificationIn(Notifications)

InitRecreate ==
    /\ opt \in { o \in ReconcileOptions : o.ResourceNames = << >> /\ o.ContainerNames = << >> }
    /\ flatFiles = FALSE
    /\ seenContainers = {}
    /\ running = EmptyBag
    /\ finished = EmptyBag
    /\ wg = 0
    /\ created = EmptyBag
    /\ phase = "initial"
    /\ nObs = 0
    /\ presented = EmptyBag
    /\ passedOver = {}
    /\ podWatcher = "open"
    /\ eventWatcher = "nil"
    /\ eventLoop = "idle"
    /\ nEvents = 0
    /\ cancelled = FALSE
    /\ failures = EmptyBag
    /\ initialPods = << >>
    /\ initialEvents = << >>
    /\ lastStep = NoStep
    /\ MatcherIdle
    /\ TeeIdle
    /\ SinkIdle

NextRecreate ==
    \/ WatchStartLive
    \/ WatchLiveNotification
    \/ collectLogs

SpecRecreate == InitRecreate /\ [][NextRecreate]_vars

\* The incarnation of its container that a notified pod shows, as namespace,
\* name, container and restart count.
ShownIdentity(pod) ==
    Identity(pod, pod.Containers[1], pod.ContainerStatuses[1].RestartCount)

\* C31: the identity does not tell the pods of one namespace and name
\* apart.  A notification, of whatever type, of a pod whose container shows
\* a restart count for which a task was started for another pod (another
\* UID) of that namespace and name starts no task; so no incarnation has
\* tasks for two pods.
C31_IdentityIgnoresInstance ==
    /\ (/\ lastStep.on
        /\ lastStep.shape = "pod"
        /\ lastStep.obs.ContainerStatuses # << >>
        /\ \E o \in lastStep.owners :
               o[1] = ShownIdentity(lastStep.obs) /\ o[2] # lastStep.obs.UID)
           => lastStep.launched = EmptyBag
    /\ lastStep.on =>
           \A o1, o2 \in lastStep.owners : o1[1] = o2[1] => o1[2] = o2[2]

\* A task was started for pod u1, u1 was notified as deleted, and the
\* notification that pod u2 was added, its container in an accepted phase
\* with the restart count of that task, has started nothing.
C31_Witness ==
    /\ lastStep.on
    /\ lastStep.shape = "pod"
    /\ lastStep.obs.Type = "ADDED"
    /\ lastStep.obs.UID = "u2"
    /\ "u1" \in lastStep.deleted
    /\ RejectedAt(lastStep.obs) = ""
    /\ << ShownIdentity(lastStep.obs), "u1" >> \in lastStep.owners
    /\ lastStep.launched = EmptyBag

\* The same after a notification of type DELETED about pod u2.
C31_WitnessDeleted ==
    /\ lastStep.on
    /\ lastStep.shape = "pod"
    /\ lastStep.obs.Type = "DELETED"
    /\ lastStep.obs.UID = "u2"
    /\ RejectedAt(lastStep.obs) = ""
    /\ << ShownIdentity(lastStep.obs), "u1" >> \in lastStep.owners
    /\ lastStep.launched = EmptyBag

(***************************************************************************)
(* Statement about the result of the composite CollectLogs.                *)
(***************************************************************************)
\* C32: the composite CollectLogs returns nil whatever became of its two
\* delegates (a's file not opened, a's write failed, the read of the
\* upstream failed), and the capture task that called it logs no failure.
C32_CompositeAlwaysSucceeds ==
    returned # << >> =>
        /\ returned = << "nil" >>
        /\ ~failedToCollectLogs(returned[1])

\* The composite has returned after a.CollectLogs failed to write.
C32_Witness ==
    /\ returned # << >>
    /\ aErr = "write"
    /\ aPC = "done"
    /\ bPC = "done"

\* The composite has returned after a.CollectLogs failed to open its file,
\* and after the read of the upstream failed.
C32_WitnessOpenRead ==
    /\ returned # << >>
    /\ aErr \in { "open", "read" }

====
